---- MODULE Spec2Model ----
(***************************************************************************)
(* State-machine model of the WorldSim engine (worldsim_engine.py) and of  *)
(* the Q-learning driver loop (worldsim_agents.py, worldsim_dashboard.py). *)
(*                                                                         *)
(* Floats are rendered in fixed point:                                     *)
(*   resources, max_resources, production_rates : 1/100 of a unit          *)
(*   population                                 : 1/100 of a person        *)
(*   consumption_per_pop                        : 1/100 of a unit/person   *)
(*   happiness, tech_level, relationship,                                  *)
(*   severities, random draws, ratios           : 1/1000                   *)
(*   climate_stress                             : 1/10000                  *)
(*   growth                                     : 1/100000                 *)
(* Threshold tests on ratios are done by cross-multiplication, so they are *)
(* exact on the fixed-point values.                                        *)
(***************************************************************************)
EXTENDS Integers, Sequences, FiniteSets, TLC

\* ------------------------------------------------------------------------
\* Bounds of the exploration
\* ------------------------------------------------------------------------
MaxCycles == 36

MaxAfter == 1

MaxTwoCycles == 2

MaxClimateSteps == 2

MaxDriverCycles == 22

MaxMarketCycles == 10

\* ------------------------------------------------------------------------
\* Enumerations and tables
\* ------------------------------------------------------------------------
RESOURCE_KEYS == <<"water", "food", "energy", "land">>

ResSet == {"water", "food", "energy", "land"}

SEASONS == <<"Spring", "Summer", "Autumn", "Winter">>

ACTION_NAMES == <<"focus_water", "focus_food", "focus_energy", "expand_land",
                  "conserve", "trade", "research", "stockpile", "balance">>

ActionSet == {ACTION_NAMES[i] : i \in 1..Len(ACTION_NAMES)}

NAMES == <<"Verdantia", "Aridia", "Temperalis", "Borealis",
           "Glaciera", "Maritosa", "Montarok", "Fluviana">>

NameSet == {NAMES[i] : i \in 1..Len(NAMES)}

NameIdx(n) == CHOOSE i \in 1..Len(NAMES) : NAMES[i] = n

Min2(a, b) == IF a < b THEN a ELSE b

Max2(a, b) == IF a > b THEN a ELSE b

Clip(x, lo, hi) == Max2(lo, Min2(x, hi))

\* a function given by an expression, evaluated once (dict and list values
\* are stored, not recomputed on every read)
Eager(f) == f @@ <<>>

Res4(w, f, e, l) == [water |-> w, food |-> f, energy |-> e, land |-> l]

\* World.REGION_CONFIGS as written in the source (fixed point).
CONFIG_TABLE ==
  [Verdantia |-> [biome |-> "TROPICAL",
                  resources |-> Res4(80000, 70000, 30000, 50000),
                  max_resources |-> Res4(100000, 100000, 60000, 60000),
                  production_rates |-> Res4(3800, 4200, 1000, 300),
                  consumption_per_pop |-> Res4(25, 20, 10, 3),
                  population |-> 12000, max_population |-> 50000],
   Aridia |-> [biome |-> "ARID",
                  resources |-> Res4(20000, 30000, 80000, 70000),
                  max_resources |-> Res4(50000, 60000, 100000, 90000),
                  production_rates |-> Res4(800, 1400, 4800, 500),
                  consumption_per_pop |-> Res4(30, 20, 15, 2),
                  population |-> 8000, max_population |-> 30000],
   Temperalis |-> [biome |-> "TEMPERATE",
                  resources |-> Res4(60000, 60000, 50000, 60000),
                  max_resources |-> Res4(80000, 80000, 70000, 80000),
                  production_rates |-> Res4(2800, 3200, 2200, 400),
                  consumption_per_pop |-> Res4(20, 20, 15, 3),
                  population |-> 15000, max_population |-> 60000],
   Borealis |-> [biome |-> "CONTINENTAL",
                  resources |-> Res4(50000, 40000, 60000, 80000),
                  max_resources |-> Res4(70000, 70000, 80000, 100000),
                  production_rates |-> Res4(2200, 1800, 3200, 500),
                  consumption_per_pop |-> Res4(20, 25, 20, 3),
                  population |-> 10000, max_population |-> 40000],
   Glaciera |-> [biome |-> "POLAR",
                  resources |-> Res4(90000, 15000, 20000, 30000),
                  max_resources |-> Res4(120000, 40000, 50000, 40000),
                  production_rates |-> Res4(4800, 500, 1200, 100),
                  consumption_per_pop |-> Res4(15, 25, 30, 2),
                  population |-> 5000, max_population |-> 20000],
   Maritosa |-> [biome |-> "COASTAL",
                  resources |-> Res4(70000, 60000, 40000, 35000),
                  max_resources |-> Res4(90000, 80000, 60000, 45000),
                  production_rates |-> Res4(3200, 3600, 1800, 200),
                  consumption_per_pop |-> Res4(20, 18, 15, 4),
                  population |-> 13000, max_population |-> 45000],
   Montarok |-> [biome |-> "MOUNTAINOUS",
                  resources |-> Res4(40000, 25000, 70000, 40000),
                  max_resources |-> Res4(60000, 50000, 90000, 50000),
                  production_rates |-> Res4(1800, 1000, 4200, 200),
                  consumption_per_pop |-> Res4(20, 22, 10, 3),
                  population |-> 7000, max_population |-> 25000],
   Fluviana |-> [biome |-> "RIVERINE",
                  resources |-> Res4(85000, 75000, 35000, 55000),
                  max_resources |-> Res4(110000, 90000, 50000, 70000),
                  production_rates |-> Res4(4200, 4000, 1200, 400),
                  consumption_per_pop |-> Res4(20, 18, 12, 3),
                  population |-> 14000, max_population |-> 55000]]

\* ClimateSystem.BIOME_EVENT_WEIGHTS (weights in 1/1000).
BIOME_EVENT_WEIGHTS ==
  [TROPICAL |-> [flood |-> 300, plague |-> 200, bumper_harvest |-> 250,
                 drought |-> 100, technological_leap |-> 50],
   ARID |-> [drought |-> 350, energy_boom |-> 200, water_discovery |-> 150,
             earthquake |-> 100, trade_disruption |-> 50],
   TEMPERATE |-> [bumper_harvest |-> 300, flood |-> 150, drought |-> 150,
                  plague |-> 100, technological_leap |-> 100],
   CONTINENTAL |-> [drought |-> 200, flood |-> 150, bumper_harvest |-> 200,
                    energy_crisis |-> 150, earthquake |-> 50],
   POLAR |-> [energy_crisis |-> 300, water_discovery |-> 150,
              earthquake |-> 100, flood |-> 100, drought |-> 100],
   COASTAL |-> [flood |-> 300, bumper_harvest |-> 150,
                water_discovery |-> 150, plague |-> 100,
                trade_disruption |-> 100],
   MOUNTAINOUS |-> [earthquake |-> 250, energy_boom |-> 200,
                    volcanic_eruption |-> 100, drought |-> 100,
                    flood |-> 100],
   RIVERINE |-> [flood |-> 300, bumper_harvest |-> 250,
                 water_discovery |-> 100, plague |-> 100,
                 technological_leap |-> 80]]

\* ------------------------------------------------------------------------
\* Region (a Region object is a record; its three dict fields are the
\* dicts of REGION_CONFIGS, see RegionsOf below)
\* ------------------------------------------------------------------------
\* max(self.max_resources[res], 1)
RatioDen(region, res) == Max2(region.max_resources[res], 100)

\* Region.resource_ratio, in 1/1000
resource_ratio(region, res) ==
  (region.resources[res] * 1000) \div RatioDen(region, res)

\* resource_ratio(res) < pct/100, > pct/100 (exact)
RatioLT(region, res, pct) ==
  region.resources[res] * 100 < pct * RatioDen(region, res)

RatioGT(region, res, pct) ==
  region.resources[res] * 100 > pct * RatioDen(region, res)

\* Region.total_consumption
total_consumption(region, res) ==
  (region.consumption_per_pop[res] * region.population) \div 100

\* Region.surplus
surplus(region, res) ==
  region.resources[res] - total_consumption(region, res) * 3

\* Region.surplus_resources, as a set (used in RESOURCE_KEYS order)
surplus_resources(region) == {r \in ResSet : RatioGT(region, r, 55)}

\* Region.overall_satisfaction, in 1/1000
overall_satisfaction(region) ==
  (resource_ratio(region, "water") + resource_ratio(region, "food")
   + resource_ratio(region, "energy") + resource_ratio(region, "land")) \div 4

\* clamp_resources without the upper limit
clamp_resources_no_cap(region) ==
  [region EXCEPT !.resources =
     Eager([r \in ResSet |-> Max2(region.resources[r], 0)])]

\* Region.clamp_resources
clamp_resources(region) ==
  [region EXCEPT !.resources =
     Eager([r \in ResSet |-> Clip(region.resources[r], 0, region.max_resources[r])])]

\* Region.get_state_tuple
Level(region, res) ==
  IF RatioLT(region, res, 15) THEN 0
  ELSE IF RatioLT(region, res, 35) THEN 1
  ELSE IF RatioLT(region, res, 55) THEN 2
  ELSE IF RatioLT(region, res, 75) THEN 3
  ELSE 4

get_state_tuple(region) ==
  <<Level(region, "water"), Level(region, "food"), Level(region, "energy"),
    Level(region, "land"),
    Min2(region.population \div 5000, 5),
    Min2((region.happiness * 4) \div 1000, 3)>>

\* ------------------------------------------------------------------------
\* World.step, phases 1-3
\* ------------------------------------------------------------------------
\* x * (1 - coef*severity), coef in 1/100, severity in 1/1000
Shrink(x, coef, severity) == (x * (1000 - (coef * severity) \div 100)) \div 1000

\* x * (1 + coef*severity)
Grow(x, coef, severity) == (x * (1000 + (coef * severity) \div 100)) \div 1000

\* phase 1 for one living region: resources[res] = min(resources[res] + prod, max)
Produce(region) ==
  LET land_factor == resource_ratio(region, "land")
      prod(res) ==
        LET lf == IF res # "land" THEN land_factor ELSE 1000
        IN (((region.production_rates[res] * region.tech_level) \div 1000)
             * (1000 + lf)) \div 2000
  IN [region EXCEPT !.resources =
        Eager([res \in ResSet |->
           Min2(region.resources[res] + prod(res), region.max_resources[res])])]

\* phase 2 for one living region: resources[res] = max(0, resources[res] - consumption)
Consume(region) ==
  [region EXCEPT !.resources =
     Eager([res \in ResSet |->
        Max2(0, region.resources[res]
                  - (region.consumption_per_pop[res] * region.population) \div 100)])]

\* the action effect with a stockpile that enlarges the land as well
ActionEffect_stockpile_land(region, action) ==
  CASE action = "focus_water" ->
         [region EXCEPT !.resources["water"] =
            @ + (region.production_rates["water"] * region.tech_level) \div 2000]
    [] action = "focus_food" ->
         [region EXCEPT !.resources["food"] =
            @ + (region.production_rates["food"] * region.tech_level) \div 2000]
    [] action = "focus_energy" ->
         [region EXCEPT !.resources["energy"] =
            @ + (region.production_rates["energy"] * region.tech_level) \div 2000]
    [] action = "expand_land" ->
         [region EXCEPT !.resources["land"] =
            Min2(@ + (12 * region.tech_level) \div 10,
                 region.max_resources["land"])]
    [] action = "conserve" ->
         [region EXCEPT
            !.resources = Eager([res \in ResSet |->
               IF res = "land" THEN region.resources[res]
               ELSE region.resources[res]
                    + (region.consumption_per_pop[res] * region.population * 35)
                        \div 10000]),
            !.happiness = (@ * 980) \div 1000]
    [] action = "research" ->
         [region EXCEPT !.tech_level = Min2(3000, @ + 18)]
    [] action = "trade" -> region
    [] action = "stockpile" ->
         [region EXCEPT !.max_resources = Eager([res \in ResSet |->
            (region.max_resources[res] * 1004) \div 1000])]
    [] action = "balance" ->
         [region EXCEPT !.resources = Eager([res \in ResSet |->
            IF res = "land" THEN region.resources[res]
            ELSE region.resources[res]
                 + (region.production_rates[res] * region.tech_level * 12)
                     \div 100000])]
    [] OTHER -> region

\* the if/elif chain ending in an else branch that acts as "balance"
ActionEffect_else_balance(region, action) ==
  IF action \in {"focus_water", "focus_food", "focus_energy", "expand_land",
                 "conserve", "research", "trade", "stockpile"}
  THEN region
  ELSE [region EXCEPT !.resources = Eager([res \in ResSet |->
          IF res = "land" THEN region.resources[res]
          ELSE region.resources[res]
               + (region.production_rates[res] * region.tech_level * 12)
                   \div 100000])]

\* the if/elif chain of World._apply_action, before the final clamp
ActionEffect(region, action) ==
  CASE action = "focus_water" ->
         [region EXCEPT !.resources["water"] =
            @ + (region.production_rates["water"] * region.tech_level) \div 2000]
    [] action = "focus_food" ->
         [region EXCEPT !.resources["food"] =
            @ + (region.production_rates["food"] * region.tech_level) \div 2000]
    [] action = "focus_energy" ->
         [region EXCEPT !.resources["energy"] =
            @ + (region.production_rates["energy"] * region.tech_level) \div 2000]
    [] action = "expand_land" ->
         [region EXCEPT !.resources["land"] =
            Min2(@ + (12 * region.tech_level) \div 10,
                 region.max_resources["land"])]
    [] action = "conserve" ->
         [region EXCEPT
            !.resources = Eager([res \in ResSet |->
               IF res = "land" THEN region.resources[res]
               ELSE region.resources[res]
                    + (region.consumption_per_pop[res] * region.population * 35)
                        \div 10000]),
            !.happiness = (@ * 980) \div 1000]
    [] action = "research" ->
         [region EXCEPT !.tech_level = Min2(3000, @ + 18)]
    [] action = "trade" -> region
    [] action = "stockpile" ->
         [region EXCEPT !.max_resources = Eager([res \in ResSet |->
            IF res = "land" THEN region.max_resources[res]
            ELSE (region.max_resources[res] * 1004) \div 1000])]
    [] action = "balance" ->
         [region EXCEPT !.resources = Eager([res \in ResSet |->
            IF res = "land" THEN region.resources[res]
            ELSE region.resources[res]
                 + (region.production_rates[res] * region.tech_level * 12)
                     \div 100000])]
    [] OTHER -> region

\* World._apply_action
apply_action(region, action) == clamp_resources(ActionEffect(region, action))

\* ------------------------------------------------------------------------
\* Climate events
\* ------------------------------------------------------------------------
EventTypes == {"drought", "flood", "earthquake", "plague", "bumper_harvest",
               "energy_crisis", "energy_boom", "water_discovery",
               "volcanic_eruption", "trade_disruption", "technological_leap"}

\* ClimateSystem._global_event: choices
GlobalEventTypes == {"drought", "energy_crisis", "plague", "trade_disruption"}

\* ClimateSystem._local_event: the event types with a positive probability
\* for a biome in a season (Summer adds/raises drought, Winter energy_crisis)
LocalEventTypes(biome, season_idx) ==
  DOMAIN BIOME_EVENT_WEIGHTS[biome]
    \cup (IF season_idx = 1 THEN {"drought"} ELSE {})
    \cup (IF season_idx = 3 THEN {"energy_crisis"} ELSE {})

\* advance without the limit 0.45
advance_no_cap(climate, cycle) ==
  [season_idx |-> cycle % 4,
   climate_stress |-> climate.climate_stress + 8]

\* ClimateSystem.advance
advance(climate, cycle) ==
  [season_idx |-> cycle % 4,
   climate_stress |-> Min2(4500, climate.climate_stress + 8)]

\* min(resources[res] + max_resources[res]*coef*severity, max_resources[res])
Replenish(region, res, coef, severity) ==
  Min2(region.resources[res]
         + (region.max_resources[res] * ((coef * severity) \div 100)) \div 1000,
       region.max_resources[res])

\* the per-target branch of World._apply_event on the Region itself
EventEffect(region, etype, severity) ==
  CASE etype = "drought" ->
         [region EXCEPT
            !.resources["water"] = Shrink(@, 30, severity),
            !.resources["food"] = Shrink(@, 12, severity),
            !.production_rates["water"] =
               (@ * Max2(800, 1000 - (8 * severity) \div 100)) \div 1000]
    [] etype = "flood" ->
         [region EXCEPT
            !.resources["food"] = Shrink(@, 22, severity),
            !.resources["land"] = Shrink(@, 8, severity),
            !.resources["water"] = Replenish(region, "water", 18, severity)]
    [] etype = "earthquake" ->
         [region EXCEPT
            !.resources["energy"] = Shrink(@, 18, severity),
            !.resources["land"] = Shrink(@, 12, severity),
            !.population = Shrink(@, 4, severity)]
    [] etype = "plague" ->
         [region EXCEPT
            !.population = Shrink(@, 12, severity),
            !.happiness = Shrink(@, 15, severity)]
    [] etype = "bumper_harvest" ->
         [region EXCEPT
            !.resources["food"] = Replenish(region, "food", 25, severity),
            !.happiness = Min2(1000, @ + (5 * severity) \div 100)]
    [] etype = "energy_crisis" ->
         [region EXCEPT
            !.resources["energy"] = Shrink(@, 28, severity),
            !.production_rates["energy"] =
               (@ * Max2(850, 1000 - (4 * severity) \div 100)) \div 1000]
    [] etype = "energy_boom" ->
         [region EXCEPT
            !.resources["energy"] = Replenish(region, "energy", 22, severity),
            !.production_rates["energy"] = Grow(@, 4, severity)]
    [] etype = "water_discovery" ->
         [region EXCEPT
            !.resources["water"] = Replenish(region, "water", 18, severity),
            !.production_rates["water"] = Grow(@, 4, severity)]
    [] etype = "volcanic_eruption" ->
         [region EXCEPT
            !.resources["land"] = Shrink(@, 18, severity),
            !.resources["energy"] = Replenish(region, "energy", 12, severity),
            !.population = Shrink(@, 8, severity)]
    [] etype = "technological_leap" ->
         [region EXCEPT
            !.tech_level = Min2(3000, @ + (15 * severity) \div 100),
            !.happiness = Min2(1000, @ + 50)]
    [] OTHER -> region

\* the TRADE_DISRUPTION branch of World._apply_event, run once per target
DisruptEffect(trade, severity) ==
  [trade EXCEPT
     !.disrupted = TRUE,
     !.relationship = Eager([key \in DOMAIN trade.relationship |->
        Max2(100, trade.relationship[key] - (5 * severity) \div 100)])]

\* targets without the is_alive filters
EventTargets_dead_too(regs, event) ==
  IF event.is_global THEN NAMES
  ELSE IF event.region \in DOMAIN regs THEN <<event.region>> ELSE <<>>

\* targets looked up by event["region"] whatever is_global says
EventTargets_by_region(regs, event) ==
  IF event.region \in DOMAIN regs /\ ~regs[event.region].is_alive
  THEN <<>> ELSE <<event.region>>

\* World._apply_event: the targets of an event, in regions order
EventTargets(regs, event) ==
  IF event.is_global
  THEN SelectSeq(NAMES, LAMBDA n : regs[n].is_alive)
  ELSE IF event.region \in DOMAIN regs /\ regs[event.region].is_alive
       THEN <<event.region>>
       ELSE <<>>

\* the loop body of World._apply_event for one target;
\* st = [regs, trade] is the part of the world an event can touch
ApplyToTarget(st, name, event) ==
  LET r1 == EventEffect(st.regs[name], event.type, event.severity)
      r2 == clamp_resources(r1)
      r3 == [r2 EXCEPT !.population = Max2(0, @)]
  IN [regs |-> [st.regs EXCEPT ![name] = r3],
      trade |-> IF event.type = "trade_disruption"
                THEN DisruptEffect(st.trade, event.severity)
                ELSE st.trade]

RECURSIVE ApplyTargets(_, _, _)
ApplyTargets(st, targets, event) ==
  IF targets = <<>> THEN st
  ELSE ApplyTargets(ApplyToTarget(st, Head(targets), event),
                    Tail(targets), event)

\* World._apply_event
apply_event(st, event) ==
  ApplyTargets(st, EventTargets(st.regs, event), event)

\* the events loop of phase 4
RECURSIVE ApplyEvents(_, _)
ApplyEvents(st, events) ==
  IF events = <<>> THEN st
  ELSE ApplyEvents(apply_event(st, Head(events)), Tail(events))

\* ClimateSystem.generate_events after advance: the random draws of the
\* cycle are given by `draws` (which regions trigger a local event, its
\* type and severity; whether a global event triggers, its type, severity)
generate_events(regs, season_idx, cycle, draws) ==
  LET Local(n) ==
        [type |-> draws.local[n].type, region |-> n, cycle |-> cycle,
         season |-> SEASONS[season_idx + 1],
         severity |-> draws.local[n].severity, is_global |-> FALSE]
      Triggered(n) ==
        /\ regs[n].is_alive
        /\ draws.local[n].type
             \in LocalEventTypes(CONFIG_TABLE[n].biome, season_idx)
      RECURSIVE Locals(_)
      Locals(i) ==
        IF i > Len(NAMES) THEN <<>>
        ELSE (IF Triggered(NAMES[i]) THEN <<Local(NAMES[i])>> ELSE <<>>)
             \o Locals(i + 1)
      Global ==
        IF draws.global.type \in GlobalEventTypes
        THEN <<[type |-> draws.global.type, region |-> "GLOBAL",
                cycle |-> cycle, season |-> SEASONS[season_idx + 1],
                severity |-> draws.global.severity, is_global |-> TRUE]>>
        ELSE <<>>
  IN Locals(1) \o Global

\* ------------------------------------------------------------------------
\* TradeSystem
\* ------------------------------------------------------------------------
\* tuple(sorted([r1, r2]))
RelKey(r1, r2) == {r1, r2}

RelKeys == {RelKey(a, b) : a, b \in NameSet} \ {{n} : n \in NameSet}

\* TradeSystem.get_rel
get_rel(trade, r1, r2) ==
  IF RelKey(r1, r2) \in DOMAIN trade.relationship
  THEN trade.relationship[RelKey(r1, r2)] ELSE 500

\* TradeSystem.update_rel
update_rel(trade, r1, r2, delta) ==
  LET key == RelKey(r1, r2)
      new == Clip(get_rel(trade, r1, r2) + delta, 0, 1000)
  IN [trade EXCEPT !.relationship =
        Eager([k \in DOMAIN trade.relationship \cup {key} |->
           IF k = key THEN new ELSE trade.relationship[k]])]

\* decay without the floor of 0.1
decay_relationships_no_floor(trade) ==
  [trade EXCEPT !.relationship =
     Eager([key \in DOMAIN trade.relationship |->
        trade.relationship[key] - 3])]

\* TradeSystem.decay_relationships
decay_relationships(trade) ==
  [trade EXCEPT !.relationship =
     Eager([key \in DOMAIN trade.relationship |->
        Max2(100, trade.relationship[key] - 3)])]

\* round(x, 1) on a value in 1/100
Round1(x) == ((x + 5) \div 10) * 10

\* the seller pool of negotiate_trades: resource -> [(region_name, amount)]
SellerPool(regs) ==
  Eager([res \in ResSet |->
     LET Offers(n) ==
           /\ regs[n].is_alive
           /\ RatioGT(regs[n], res, 55)
           /\ (surplus(regs[n], res) * 30) \div 100 > 500
         RECURSIVE Pool(_)
         Pool(i) ==
           IF i > Len(NAMES) THEN <<>>
           ELSE (IF Offers(NAMES[i])
                 THEN <<[name |-> NAMES[i],
                         amount |-> (surplus(regs[NAMES[i]], res) * 30) \div 100]>>
                 ELSE <<>>) \o Pool(i + 1)
     IN Pool(1)])

\* buyer entries whose need is taken up to the 0.40 threshold
BuyerEntries_need_40(region, name, action) ==
  LET deficit_threshold == IF action = "trade" THEN 40 ELSE 18
      Deficit(res) == RatioLT(region, res, deficit_threshold)
      Surplus(res) == RatioGT(region, res, 45)
      need(res) == (region.max_resources[res] * 40) \div 100
                     - region.resources[res]
      Offerable(res) == {i \in 1..4 : /\ Surplus(RESOURCE_KEYS[i])
                                       /\ RESOURCE_KEYS[i] # res}
      offer(res) == RESOURCE_KEYS[CHOOSE i \in Offerable(res) :
                                    \A j \in Offerable(res) : i <= j]
      RECURSIVE Entries(_)
      Entries(i) ==
        IF i > 4 THEN <<>>
        ELSE LET res == RESOURCE_KEYS[i]
             IN (IF Deficit(res) /\ need(res) > 500 /\ Offerable(res) # {}
                 THEN <<[name |-> name, res |-> res, need |-> need(res),
                         offer |-> offer(res)]>>
                 ELSE <<>>) \o Entries(i + 1)
  IN Entries(1)

\* the buyer entries one region appends, in RESOURCE_KEYS order
BuyerEntries(region, name, action) ==
  LET deficit_threshold == IF action = "trade" THEN 40 ELSE 18
      Deficit(res) == RatioLT(region, res, deficit_threshold)
      Surplus(res) == RatioGT(region, res, 45)
      need(res) == (region.max_resources[res] * 35) \div 100
                     - region.resources[res]
      Offerable(res) == {i \in 1..4 : /\ Surplus(RESOURCE_KEYS[i])
                                       /\ RESOURCE_KEYS[i] # res}
      offer(res) == RESOURCE_KEYS[CHOOSE i \in Offerable(res) :
                                    \A j \in Offerable(res) : i <= j]
      RECURSIVE Entries(_)
      Entries(i) ==
        IF i > 4 THEN <<>>
        ELSE LET res == RESOURCE_KEYS[i]
             IN (IF Deficit(res) /\ need(res) > 500 /\ Offerable(res) # {}
                 THEN <<[name |-> name, res |-> res, need |-> need(res),
                         offer |-> offer(res)]>>
                 ELSE <<>>) \o Entries(i + 1)
  IN Entries(1)

\* the buyers of negotiate_trades without the is_alive filter
BuyerList_dead_too(regs, decisions) ==
  LET RECURSIVE All(_)
      All(i) ==
        IF i > Len(NAMES) THEN <<>>
        ELSE BuyerEntries(regs[NAMES[i]], NAMES[i], decisions[NAMES[i]])
             \o All(i + 1)
      entries == All(1)
      First(res) == CHOOSE i \in 1..Len(entries) :
                      /\ entries[i].res = res
                      /\ \A j \in 1..(i - 1) : entries[j].res # res
      Rank(i) == First(entries[i].res) * (Len(entries) + 1) + i
      RECURSIVE Sorted(_)
      Sorted(left) ==
        IF left = {} THEN <<>>
        ELSE LET i == CHOOSE x \in left : \A y \in left : Rank(x) <= Rank(y)
             IN <<entries[i]>> \o Sorted(left \ {i})
  IN Sorted(1..Len(entries))

\* the buyers dict of negotiate_trades, flattened in matching order:
\* resources in order of first insertion, buyers in insertion order
BuyerList(regs, decisions) ==
  LET RECURSIVE All(_)
      All(i) ==
        IF i > Len(NAMES) THEN <<>>
        ELSE (IF regs[NAMES[i]].is_alive
              THEN BuyerEntries(regs[NAMES[i]], NAMES[i], decisions[NAMES[i]])
              ELSE <<>>) \o All(i + 1)
      entries == All(1)
      First(res) == CHOOSE i \in 1..Len(entries) :
                      /\ entries[i].res = res
                      /\ \A j \in 1..(i - 1) : entries[j].res # res
      Rank(i) == First(entries[i].res) * (Len(entries) + 1) + i
      RECURSIVE Sorted(_)
      Sorted(left) ==
        IF left = {} THEN <<>>
        ELSE LET i == CHOOSE x \in left : \A y \in left : Rank(x) <= Rank(y)
             IN <<entries[i]>> \o Sorted(left \ {i})
  IN Sorted(1..Len(entries))

\* one buyer of the matching loop, from seller index i on;
\* ms = [regs, trade, sellers, trades, transfers]; u is the acceptance draw.
\* transfers is a history of the loop: for each executed trade the unrounded
\* trade_amt and exchange_amt and the four holdings before the transfer and
\* after clamp_resources.
RECURSIVE FindSeller(_, _, _, _, _)
FindSeller(ms, b, i, cycle, u) ==
  IF i > Len(ms.sellers[b.res]) THEN ms
  ELSE
    LET seller == ms.sellers[b.res][i]
        rel == get_rel(ms.trade, b.name, seller.name)
        trade_amt == Min2(Min2(b.need, seller.amount), 6000)
        exchange_amt == (trade_amt * (4000 + rel)) \div 5000
        buyer1 == [ms.regs[b.name] EXCEPT
                     !.resources[b.res] = @ + trade_amt,
                     !.resources[b.offer] = @ - exchange_amt]
        seller1 == [ms.regs[seller.name] EXCEPT
                      !.resources[b.res] = @ - trade_amt,
                      !.resources[b.offer] = @ + exchange_amt]
        record == [cycle |-> cycle, buyer |-> b.name, seller |-> seller.name,
                   resource_bought |-> b.res, amount |-> Round1(trade_amt),
                   resource_sold |-> b.offer,
                   exchange_amount |-> Round1(exchange_amt)]
        buyer2 == clamp_resources(buyer1)
        seller2 == clamp_resources(seller1)
        transfer == [buyer |-> b.name, seller |-> seller.name,
                     res |-> b.res, offer |-> b.offer,
                     trade_amt |-> trade_amt, exchange_amt |-> exchange_amt,
                     buyer_res |-> <<ms.regs[b.name].resources[b.res],
                                     buyer2.resources[b.res]>>,
                     buyer_offer |-> <<ms.regs[b.name].resources[b.offer],
                                       buyer2.resources[b.offer]>>,
                     seller_res |-> <<ms.regs[seller.name].resources[b.res],
                                      seller2.resources[b.res]>>,
                     seller_offer |-> <<ms.regs[seller.name].resources[b.offer],
                                        seller2.resources[b.offer]>>]
    IN IF \/ seller.name = b.name
          \/ seller.amount < 300
          \/ ~ms.regs[seller.name].is_alive
          \/ u * 1000 > 300000 + 700 * rel
          \/ RatioGT(ms.regs[seller.name], b.offer, 85)
       THEN FindSeller(ms, b, i + 1, cycle, u)
       ELSE [regs |-> [ms.regs EXCEPT
                         ![b.name] = buyer2,
                         ![seller.name] = seller2],
             trade |-> update_rel(
                         [ms.trade EXCEPT !.trade_history = Append(@, record)],
                         b.name, seller.name, 40),
             sellers |-> [ms.sellers EXCEPT ![b.res][i].amount = @ - trade_amt],
             trades |-> Append(ms.trades, record),
             transfers |-> Append(ms.transfers, transfer)]

RECURSIVE MatchBuyers(_, _, _, _)
MatchBuyers(ms, buyers, cycle, u) ==
  IF buyers = <<>> THEN ms
  ELSE MatchBuyers(FindSeller(ms, Head(buyers), 1, cycle, u),
                   Tail(buyers), cycle, u)

\* negotiate_trades that decays the relationships before it looks at the flag
negotiate_trades_decay_first(st, decisions, cycle, u) ==
  IF st.trade.disrupted
  THEN [regs |-> st.regs,
        trade |-> [decay_relationships(st.trade) EXCEPT !.disrupted = FALSE],
        trades |-> <<>>, transfers |-> <<>>]
  ELSE LET ms == MatchBuyers([regs |-> st.regs,
                              trade |-> decay_relationships(st.trade),
                              sellers |-> SellerPool(st.regs),
                              trades |-> <<>>, transfers |-> <<>>],
                             BuyerList(st.regs, decisions), cycle, u)
       IN [regs |-> ms.regs, trade |-> ms.trade, trades |-> ms.trades,
           transfers |-> ms.transfers]

\* negotiate_trades that clears the flag but negotiates all the same
negotiate_trades_no_block(st, decisions, cycle, u) ==
  LET ms == MatchBuyers([regs |-> st.regs,
                         trade |-> decay_relationships(
                                     [st.trade EXCEPT !.disrupted = FALSE]),
                         sellers |-> SellerPool(st.regs),
                         trades |-> <<>>, transfers |-> <<>>],
                        BuyerList(st.regs, decisions), cycle, u)
  IN [regs |-> ms.regs, trade |-> ms.trade, trades |-> ms.trades,
      transfers |-> ms.transfers]

\* TradeSystem.negotiate_trades; returns [regs, trade, trades, transfers]
negotiate_trades(st, decisions, cycle, u) ==
  IF st.trade.disrupted
  THEN [regs |-> st.regs,
        trade |-> [st.trade EXCEPT !.disrupted = FALSE],
        trades |-> <<>>, transfers |-> <<>>]
  ELSE LET ms == MatchBuyers([regs |-> st.regs,
                              trade |-> decay_relationships(st.trade),
                              sellers |-> SellerPool(st.regs),
                              trades |-> <<>>, transfers |-> <<>>],
                             BuyerList(st.regs, decisions), cycle, u)
       IN [regs |-> ms.regs, trade |-> ms.trade, trades |-> ms.trades,
      transfers |-> ms.transfers]

\* ------------------------------------------------------------------------
\* World.step, phase 6
\* ------------------------------------------------------------------------
\* demographics that leaves collapse_cycle as it is
Demographics_no_collapse_cycle(region, action, cycle) ==
  LET sat == overall_satisfaction(region)
      happiness == (700 * region.happiness + 300 * sat) \div 1000
      base == IF sat > 450
              THEN (18 * (sat - 450) * happiness) \div 10000
              ELSE 0 - (28 * (450 - sat)) \div 10
      growth == base
                - (IF RatioLT(region, "water", 10) THEN 4000 ELSE 0)
                - (IF RatioLT(region, "food", 10) THEN 4000 ELSE 0)
      population == Clip(region.population
                           + (region.population * growth) \div 100000,
                         0, region.max_population)
      tech_level == IF action # "research"
                    THEN Min2(3000, region.tech_level + 2)
                    ELSE region.tech_level
      dies == population < 500
  IN [region EXCEPT !.happiness = happiness,
                    !.population = population,
                    !.tech_level = tech_level,
                    !.is_alive = ~dies,
                    !.collapse_cycle = @]

\* demographics that adds 0.3*satisfaction to the whole of the old happiness
Demographics_unweighted(region, action, cycle) ==
  LET sat == overall_satisfaction(region)
      happiness == (1000 * region.happiness + 300 * sat) \div 1000
      base == IF sat > 450
              THEN (18 * (sat - 450) * happiness) \div 10000
              ELSE 0 - (28 * (450 - sat)) \div 10
      growth == base
                - (IF RatioLT(region, "water", 10) THEN 4000 ELSE 0)
                - (IF RatioLT(region, "food", 10) THEN 4000 ELSE 0)
      population == Clip(region.population
                           + (region.population * growth) \div 100000,
                         0, region.max_population)
      tech_level == IF action # "research"
                    THEN Min2(3000, region.tech_level + 2)
                    ELSE region.tech_level
      dies == population < 500
  IN [region EXCEPT !.happiness = happiness,
                    !.population = population,
                    !.tech_level = tech_level,
                    !.is_alive = ~dies,
                    !.collapse_cycle = IF dies THEN cycle ELSE @]

Demographics(region, action, cycle) ==
  LET sat == overall_satisfaction(region)
      happiness == (700 * region.happiness + 300 * sat) \div 1000
      base == IF sat > 450
              THEN (18 * (sat - 450) * happiness) \div 10000
              ELSE 0 - (28 * (450 - sat)) \div 10
      growth == base
                - (IF RatioLT(region, "water", 10) THEN 4000 ELSE 0)
                - (IF RatioLT(region, "food", 10) THEN 4000 ELSE 0)
      population == Clip(region.population
                           + (region.population * growth) \div 100000,
                         0, region.max_population)
      tech_level == IF action # "research"
                    THEN Min2(3000, region.tech_level + 2)
                    ELSE region.tech_level
      dies == population < 500
  IN [region EXCEPT !.happiness = happiness,
                    !.population = population,
                    !.tech_level = tech_level,
                    !.is_alive = ~dies,
                    !.collapse_cycle = IF dies THEN cycle ELSE @]

\* ------------------------------------------------------------------------
\* World
\* ------------------------------------------------------------------------
\* The Region objects of a World: Region(**cfg) stores the dicts of the
\* class-level REGION_CONFIGS entry themselves (resources, max_resources,
\* production_rates, consumption_per_pop), so these fields are read through
\* `configs`; the scalar fields are the World's own.
RegionsOf(world, configs) ==
  Eager([n \in NameSet |->
     [resources |-> configs[n].resources,
      max_resources |-> configs[n].max_resources,
      production_rates |-> configs[n].production_rates,
      consumption_per_pop |-> CONFIG_TABLE[n].consumption_per_pop,
      population |-> world.regions[n].population,
      max_population |-> world.regions[n].max_population,
      happiness |-> world.regions[n].happiness,
      tech_level |-> world.regions[n].tech_level,
      is_alive |-> world.regions[n].is_alive,
      collapse_cycle |-> world.regions[n].collapse_cycle]])

\* the dict fields of the regions, written back to the shared dicts
DictsOf(regs) ==
  Eager([n \in NameSet |->
     [resources |-> regs[n].resources,
      max_resources |-> regs[n].max_resources,
      production_rates |-> regs[n].production_rates]])

\* the scalar fields of the regions
ScalarsOf(regs) ==
  Eager([n \in NameSet |->
     [population |-> regs[n].population,
      max_population |-> regs[n].max_population,
      happiness |-> regs[n].happiness,
      tech_level |-> regs[n].tech_level,
      is_alive |-> regs[n].is_alive,
      collapse_cycle |-> regs[n].collapse_cycle]])

\* the mutable dicts of REGION_CONFIGS when the module is loaded
InitialConfigs ==
  Eager([n \in NameSet |->
     [resources |-> CONFIG_TABLE[n].resources,
      max_resources |-> CONFIG_TABLE[n].max_resources,
      production_rates |-> CONFIG_TABLE[n].production_rates]])

NoLog == [cycle |-> 0, events |-> <<>>, trades |-> <<>>,
          collapses |-> <<>>, season |-> "", raised |-> FALSE]

\* a World that has not been constructed
NoWorld == [constructed |-> FALSE]

\* World.__init__ and World._init_regions
NewWorld(seed) ==
  [constructed |-> TRUE,
   seed |-> seed,
   cycle |-> 0,
   regions |-> Eager([n \in NameSet |->
      [population |-> CONFIG_TABLE[n].population,
       max_population |-> CONFIG_TABLE[n].max_population,
       happiness |-> 500,
       tech_level |-> 1000,
       is_alive |-> TRUE,
       collapse_cycle |-> -1]]),
   climate |-> [season_idx |-> 0, climate_stress |-> 0],
   trade |-> [relationship |-> [key \in RelKeys |-> 500],
              disrupted |-> FALSE,
              trade_history |-> <<>>],
   resource_history |-> <<>>,
   population_history |-> <<>>,
   happiness_history |-> <<>>,
   tech_history |-> <<>>,
   event_history |-> <<>>,
   trade_count_history |-> <<>>,
   strategy_history |-> <<>>,
   season_history |-> <<>>,
   collapse_log |-> <<>>]

\* a lookup of step that would raise KeyError: a decision for a name that
\* is not a region (lines 659, 316), an event target that is not a region
StepRaises(regs, decisions, events) ==
  \/ \E name \in DOMAIN decisions : name \notin DOMAIN regs
  \/ \E i \in 1..Len(events) :
       \E j \in 1..Len(EventTargets(regs, events[i])) :
          EventTargets(regs, events[i])[j] \notin DOMAIN regs

\* _record that leaves the collapsed regions out of the snapshots
record_alive_only(world, regs, log, decisions) ==
  [world EXCEPT
     !.resource_history = Append(@, Eager([n \in {m \in NameSet : regs[m].is_alive} |-> regs[n].resources])),
     !.population_history = Append(@, Eager([n \in {m \in NameSet : regs[m].is_alive} |-> regs[n].population])),
     !.happiness_history = Append(@, Eager([n \in {m \in NameSet : regs[m].is_alive} |-> regs[n].happiness])),
     !.tech_history = Append(@, Eager([n \in {m \in NameSet : regs[m].is_alive} |-> regs[n].tech_level])),
     !.trade_count_history = Append(@, Len(log.trades)),
     !.strategy_history = Append(@, Eager([n \in {m \in NameSet : regs[m].is_alive} |->
         IF n \in DOMAIN decisions THEN decisions[n] ELSE "none"])),
     !.season_history = Append(@, log.season)]

\* World._record
record(world, regs, log, decisions) ==
  [world EXCEPT
     !.resource_history = Append(@, Eager([n \in NameSet |-> regs[n].resources])),
     !.population_history = Append(@, Eager([n \in NameSet |-> regs[n].population])),
     !.happiness_history = Append(@, Eager([n \in NameSet |-> regs[n].happiness])),
     !.tech_history = Append(@, Eager([n \in NameSet |-> regs[n].tech_level])),
     !.trade_count_history = Append(@, Len(log.trades)),
     !.strategy_history = Append(@, Eager([n \in NameSet |->
         IF n \in DOMAIN decisions THEN decisions[n] ELSE "none"])),
     !.season_history = Append(@, log.season)]

\* World.step is written as a chain of operators, one per phase; each
\* passes on the values the later phases and the ghost record phases need.

\* step, phase 7 and the return: collapse log, cycle log, histories
step_record(world, decisions, regs2, regs3, climate, events, st4, st5, regs6) ==
  LET cycle == world.cycle + 1
      collapses == SelectSeq(NAMES,
                     LAMBDA n : st5.regs[n].is_alive /\ ~regs6[n].is_alive)
      RECURSIVE CollapseLog(_)
      CollapseLog(names) ==
        IF names = <<>> THEN <<>>
        ELSE <<[name |-> Head(names), cycle |-> cycle]>>
             \o CollapseLog(Tail(names))
      log == [cycle |-> cycle, events |-> events, trades |-> st5.trades,
              collapses |-> collapses,
              season |-> SEASONS[world.climate.season_idx + 1],
              raised |-> FALSE]
      world6 == [world EXCEPT
                   !.cycle = cycle,
                   !.regions = ScalarsOf(regs6),
                   !.climate = climate,
                   !.trade = st5.trade,
                   !.event_history = @ \o events,
                   !.collapse_log = @ \o CollapseLog(collapses)]
  IN [world |-> record(world6, regs6, log, decisions),
      configs |-> DictsOf(regs6),
      log |-> log,
      phases |-> [pre_action |-> regs2, post_action |-> regs3,
                  pre_trade |-> st4, post_trade |-> st5,
                  decisions |-> decisions]]

\* step, phase 6: population dynamics of the living regions
step_population(world, decisions, regs2, regs3, climate, events, st4, st5) ==
  step_record(world, decisions, regs2, regs3, climate, events, st4, st5,
    Eager([n \in NameSet |->
       IF st5.regs[n].is_alive
       THEN Demographics(st5.regs[n],
                         IF n \in DOMAIN decisions THEN decisions[n] ELSE "",
                         world.cycle + 1)
       ELSE st5.regs[n]]))

\* step, phase 5: trade
step_trade(world, decisions, draws, regs2, regs3, climate, events, st4) ==
  step_population(world, decisions, regs2, regs3, climate, events, st4,
    negotiate_trades(st4, decisions, world.cycle + 1, draws.u))

\* step when a lookup raises KeyError: the cycle number and the production
\* and consumption of the call are kept, nothing is recorded
step_raised(world, decisions, regs2) ==
  [world |-> [world EXCEPT !.cycle = world.cycle + 1],
   configs |-> DictsOf(regs2),
   log |-> [NoLog EXCEPT !.cycle = world.cycle + 1, !.raised = TRUE],
   phases |-> [pre_action |-> regs2, post_action |-> regs2,
               pre_trade |-> [regs |-> regs2, trade |-> world.trade],
               post_trade |-> [regs |-> regs2, trade |-> world.trade,
                               trades |-> <<>>, transfers |-> <<>>],
               decisions |-> decisions]]

\* step, phase 4: the events of the cycle are applied
step_events(world, decisions, draws, regs2, regs3, climate, events) ==
  IF StepRaises(regs2, decisions, events)
  THEN step_raised(world, decisions, regs2)
  ELSE step_trade(world, decisions, draws, regs2, regs3, climate, events,
         ApplyEvents([regs |-> regs3, trade |-> world.trade], events))

\* step, phase 4: generate_events
step_climate(world, decisions, draws, regs2, regs3, climate) ==
  step_events(world, decisions, draws, regs2, regs3, climate,
    generate_events(regs3, climate.season_idx, world.cycle + 1, draws))

\* step, phase 3: agent actions
step_actions(world, decisions, draws, regs2) ==
  step_climate(world, decisions, draws, regs2,
    Eager([n \in NameSet |->
       IF n \in DOMAIN decisions /\ regs2[n].is_alive
       THEN apply_action(regs2[n], decisions[n]) ELSE regs2[n]]),
    advance(world.climate, world.cycle + 1))

\* phases 1 and 2 in the other order: consumption, then production
ProduceConsume_consume_first(regs) ==
  Eager([n \in NameSet |->
     IF regs[n].is_alive THEN Produce(Consume(regs[n])) ELSE regs[n]])

\* step, phases 1 and 2: production and consumption of the living regions
ProduceConsume(regs) ==
  Eager([n \in NameSet |->
     IF regs[n].is_alive THEN Consume(Produce(regs[n])) ELSE regs[n]])

\* World.step: returns [world, configs, log] and, in phases, the regions and
\* the trade system as they were between the phases of this call
step(world, configs, decisions, draws) ==
  step_actions(world, decisions, draws,
               ProduceConsume(RegionsOf(world, configs)))

\* ------------------------------------------------------------------------
\* Q-learning agents (worldsim_agents.py).  Q-values and rewards are in
\* 1/1000, epsilon in 1/1000000, lr, gamma and epsilon_decay in 1/1000.
\* ------------------------------------------------------------------------
NUM_ACTIONS == Len(ACTION_NAMES)

ActionIdxs == 0..(NUM_ACTIONS - 1)

\* np.zeros(NUM_ACTIONS)
zeros == [i \in ActionIdxs |-> 0]

\* q_table[state] on a defaultdict: the table after the read, in which a
\* missing key has been inserted with zeros
q_table_read(q_table, state) ==
  IF state \in DOMAIN q_table THEN q_table ELSE q_table @@ (state :> zeros)

\* np.max(q_vals)
MaxQ(q_vals) ==
  CHOOSE m \in {q_vals[i] : i \in ActionIdxs} :
     \A i \in ActionIdxs : q_vals[i] <= m

\* the k-th smallest element of a set of action indices, k from 0
RECURSIVE Ranked(_, _)
Ranked(S, k) ==
  LET lo == CHOOSE i \in S : \A j \in S : i <= j
  IN IF k = 0 THEN lo ELSE Ranked(S \ {lo}, k - 1)

\* QLearningAgent.__init__; last_state None is <<>>, last_action_idx None
\* is -1.  update_targets is a history: the states whose Q-values an update
\* has assigned.
NewAgent(name) ==
  [name |-> name,
   lr |-> 150,
   gamma |-> 950,
   epsilon |-> 1000000,
   epsilon_end |-> 50000,
   epsilon_decay |-> 994,
   q_table |-> <<>>,
   last_state |-> <<>>,
   last_action_idx |-> 0 - 1,
   action_history |-> <<>>,
   reward_history |-> <<>>,
   epsilon_history |-> <<>>,
   total_reward |-> 0,
   states_visited |-> {},
   update_targets |-> {}]

\* QLearningAgent.get_action.  draw.u is the value of random.random() in
\* 1/1000, draw.r the value of random.randint(0, NUM_ACTIONS - 1), draw.c
\* the position np.random.choice picks among the candidates.  Returns the
\* agent, the action index and the calls made to the two process-wide
\* generators.
get_action(agent, state, draw) ==
  LET explore == draw.u * 1000 < agent.epsilon
      table == IF explore THEN agent.q_table
               ELSE q_table_read(agent.q_table, state)
      candidates == {i \in ActionIdxs : table[state][i] = MaxQ(table[state])}
      action_idx == IF explore THEN draw.r
                    ELSE Ranked(candidates, draw.c % Cardinality(candidates))
  IN [agent |-> [agent EXCEPT
                   !.states_visited = @ \cup {state},
                   !.q_table = table,
                   !.last_state = state,
                   !.last_action_idx = action_idx,
                   !.action_history = Append(@, action_idx),
                   !.epsilon_history = Append(@, agent.epsilon)],
      action_idx |-> action_idx,
      random_calls |-> IF explore THEN 2 ELSE 1,
      np_random_calls |-> IF explore THEN 0 ELSE 1]

\* update whose decay has no floor
update_no_floor(agent, new_state, reward) ==
  LET t1 == q_table_read(agent.q_table, agent.last_state)
      old_q == t1[agent.last_state][agent.last_action_idx]
      t2 == q_table_read(t1, new_state)
      td_target == reward + (agent.gamma * MaxQ(t2[new_state])) \div 1000
      new_q == old_q + (agent.lr * (td_target - old_q)) \div 1000
      table == IF agent.last_state # <<>>
               THEN [t2 EXCEPT ![agent.last_state][agent.last_action_idx] = new_q]
               ELSE agent.q_table
  IN [agent EXCEPT
        !.q_table = table,
        !.update_targets = IF agent.last_state # <<>>
                           THEN @ \cup {agent.last_state} ELSE @,
        !.reward_history = Append(@, reward),
        !.total_reward = @ + reward,
        !.epsilon = (agent.epsilon * agent.epsilon_decay + 500) \div 1000]

\* update that decays epsilon by 0.996
update_decay_996(agent, new_state, reward) ==
  LET t1 == q_table_read(agent.q_table, agent.last_state)
      old_q == t1[agent.last_state][agent.last_action_idx]
      t2 == q_table_read(t1, new_state)
      td_target == reward + (agent.gamma * MaxQ(t2[new_state])) \div 1000
      new_q == old_q + (agent.lr * (td_target - old_q)) \div 1000
      table == IF agent.last_state # <<>>
               THEN [t2 EXCEPT ![agent.last_state][agent.last_action_idx] = new_q]
               ELSE agent.q_table
  IN [agent EXCEPT
        !.q_table = table,
        !.update_targets = IF agent.last_state # <<>>
                           THEN @ \cup {agent.last_state} ELSE @,
        !.reward_history = Append(@, reward),
        !.total_reward = @ + reward,
        !.epsilon = Max2(agent.epsilon_end,
                         (agent.epsilon * 996 + 500) \div 1000)]

\* update that assigns the new Q-value to the entry of the next state
update_assigns_next(agent, new_state, reward) ==
  LET t1 == q_table_read(agent.q_table, agent.last_state)
      old_q == t1[agent.last_state][agent.last_action_idx]
      t2 == q_table_read(t1, new_state)
      td_target == reward + (agent.gamma * MaxQ(t2[new_state])) \div 1000
      new_q == old_q + (agent.lr * (td_target - old_q)) \div 1000
      table == IF agent.last_state # <<>>
               THEN [t2 EXCEPT ![new_state][agent.last_action_idx] = new_q]
               ELSE agent.q_table
  IN [agent EXCEPT
        !.q_table = table,
        !.update_targets = IF agent.last_state # <<>>
                           THEN @ \cup {agent.last_state} ELSE @,
        !.reward_history = Append(@, reward),
        !.total_reward = @ + reward,
        !.epsilon = Max2(agent.epsilon_end,
                         (agent.epsilon * agent.epsilon_decay + 500) \div 1000)]

\* update that assigns the new value to every action of the last state
update_whole_row(agent, new_state, reward) ==
  LET t1 == q_table_read(agent.q_table, agent.last_state)
      old_q == t1[agent.last_state][agent.last_action_idx]
      t2 == q_table_read(t1, new_state)
      td_target == reward + (agent.gamma * MaxQ(t2[new_state])) \div 1000
      new_q == old_q + (agent.lr * (td_target - old_q)) \div 1000
      table == IF agent.last_state # <<>>
               THEN [t2 EXCEPT ![agent.last_state] =
                             [k \in DOMAIN @ |-> new_q]]
               ELSE agent.q_table
  IN [agent EXCEPT
        !.q_table = table,
        !.update_targets = IF agent.last_state # <<>>
                           THEN @ \cup {agent.last_state} ELSE @,
        !.reward_history = Append(@, reward),
        !.total_reward = @ + reward,
        !.epsilon = Max2(agent.epsilon_end,
                         (agent.epsilon * agent.epsilon_decay + 500) \div 1000)]

\* QLearningAgent.update
update(agent, new_state, reward) ==
  LET t1 == q_table_read(agent.q_table, agent.last_state)
      old_q == t1[agent.last_state][agent.last_action_idx]
      t2 == q_table_read(t1, new_state)
      td_target == reward + (agent.gamma * MaxQ(t2[new_state])) \div 1000
      new_q == old_q + (agent.lr * (td_target - old_q)) \div 1000
      table == IF agent.last_state # <<>>
               THEN [t2 EXCEPT ![agent.last_state][agent.last_action_idx] = new_q]
               ELSE agent.q_table
  IN [agent EXCEPT
        !.q_table = table,
        !.update_targets = IF agent.last_state # <<>>
                           THEN @ \cup {agent.last_state} ELSE @,
        !.reward_history = Append(@, reward),
        !.total_reward = @ + reward,
        !.epsilon = Max2(agent.epsilon_end,
                         (agent.epsilon * agent.epsilon_decay + 500) \div 1000)]

\* compute_reward, in 1/1000
RewardTier(region, res) ==
  IF RatioGT(region, res, 55) THEN 1500
  ELSE IF RatioGT(region, res, 35) THEN 500
  ELSE IF RatioGT(region, res, 15) THEN 0 - 800
  ELSE 0 - 3000

RewardDelta(region, prev_resources, res) ==
  5 * (resource_ratio(region, res)
       - (prev_resources[res] * 1000) \div RatioDen(region, res))

compute_reward(region, prev_resources, prev_population, prev_happiness) ==
  LET tiers == RewardTier(region, "water") + RewardTier(region, "food")
               + RewardTier(region, "energy") + RewardTier(region, "land")
      deltas == RewardDelta(region, prev_resources, "water")
                + RewardDelta(region, prev_resources, "food")
                + RewardDelta(region, prev_resources, "energy")
                + RewardDelta(region, prev_resources, "land")
      pop_change == ((region.population - prev_population) * 12000)
                    \div Max2(prev_population, 100)
      min_ratio == Min2(Min2(resource_ratio(region, "water"),
                             resource_ratio(region, "food")),
                        Min2(resource_ratio(region, "energy"),
                             resource_ratio(region, "land")))
  IN tiers + deltas + pop_change
     + (region.happiness - prev_happiness) * 6
     + region.happiness * 2
     + (IF region.is_alive THEN 1500 ELSE 0 - 60000)
     + min_ratio * 4
     + (region.tech_level * 3) \div 10

\* AgentManager before construction
NoManager == [constructed |-> FALSE]

\* AgentManager.__init__ (the two reseedings are in StartRun)
NewManager(seed) ==
  [constructed |-> TRUE,
   agents |-> Eager([n \in NameSet |-> NewAgent(n)])]

\* the sum of f[n] over the regions
RECURSIVE SumOver(_, _)
SumOver(f, names) ==
  IF names = <<>> THEN 0 ELSE f[Head(names)] + SumOver(f, Tail(names))

\* get_decisions that asks the agents of dead regions as well and discards
\* what they answer
get_decisions_ask_dead(manager, regs, draws) ==
  LET picks == Eager([n \in NameSet |->
                 get_action(manager.agents[n], get_state_tuple(regs[n]),
                            draws[n])])
  IN [manager |-> [manager EXCEPT
                     !.agents = Eager([n \in NameSet |-> picks[n].agent])],
      decisions |-> Eager([n \in NameSet |->
                      IF regs[n].is_alive
                      THEN ACTION_NAMES[picks[n].action_idx + 1]
                      ELSE "none"]),
      random_calls |-> SumOver([n \in NameSet |-> picks[n].random_calls], NAMES),
      np_random_calls |->
         SumOver([n \in NameSet |-> picks[n].np_random_calls], NAMES)]

\* AgentManager.get_decisions: the decisions, the manager and the calls
\* made to random and np.random
get_decisions(manager, regs, draws) ==
  LET picks == Eager([n \in NameSet |->
                 IF regs[n].is_alive
                 THEN get_action(manager.agents[n], get_state_tuple(regs[n]),
                                 draws[n])
                 ELSE [agent |-> manager.agents[n], action_idx |-> 0 - 1,
                       random_calls |-> 0, np_random_calls |-> 0]])
  IN [manager |-> [manager EXCEPT
                     !.agents = Eager([n \in NameSet |-> picks[n].agent])],
      decisions |-> Eager([n \in NameSet |->
                      IF regs[n].is_alive
                      THEN ACTION_NAMES[picks[n].action_idx + 1]
                      ELSE "none"]),
      random_calls |-> SumOver([n \in NameSet |-> picks[n].random_calls], NAMES),
      np_random_calls |->
         SumOver([n \in NameSet |-> picks[n].np_random_calls], NAMES)]

\* AgentManager.snapshot_states
snapshot_states(regs) ==
  Eager([n \in NameSet |->
     [resources |-> regs[n].resources,
      population |-> regs[n].population,
      happiness |-> regs[n].happiness]])

\* update_all that updates the agent of every region, dead or alive
update_all_every_region(manager, regs, cycle, prev_snap) ==
  [manager EXCEPT !.agents = Eager([n \in NameSet |->
     update(manager.agents[n], get_state_tuple(regs[n]),
            compute_reward(regs[n], prev_snap[n].resources,
                           prev_snap[n].population,
                           prev_snap[n].happiness))])]

\* update_all that skips the region that collapsed in this cycle
update_all_alive_only(manager, regs, cycle, prev_snap) ==
  [manager EXCEPT !.agents = Eager([n \in NameSet |->
     IF regs[n].is_alive
     THEN update(manager.agents[n], get_state_tuple(regs[n]),
                 compute_reward(regs[n], prev_snap[n].resources,
                                prev_snap[n].population,
                                prev_snap[n].happiness))
     ELSE manager.agents[n]])]

\* AgentManager.update_all
update_all(manager, regs, cycle, prev_snap) ==
  [manager EXCEPT !.agents = Eager([n \in NameSet |->
     IF regs[n].is_alive \/ regs[n].collapse_cycle = cycle
     THEN update(manager.agents[n], get_state_tuple(regs[n]),
                 compute_reward(regs[n], prev_snap[n].resources,
                                prev_snap[n].population,
                                prev_snap[n].happiness))
     ELSE manager.agents[n]])]

\* ------------------------------------------------------------------------
\* Inputs explored: decisions handed to step, and outcomes of the random
\* draws of one cycle
\* ------------------------------------------------------------------------
\* an action tag that is none of the 9 actions
UnknownTag == "focus_watr"

Uniform(tag) == Eager([n \in NameSet |-> tag])

DecisionProfiles ==
  [mixed |-> [Verdantia |-> "focus_water", Aridia |-> "trade",
              Temperalis |-> "conserve", Borealis |-> "research",
              Glaciera |-> "trade", Maritosa |-> "balance",
              Montarok |-> "expand_land", Fluviana |-> "focus_food"],
   hoard |-> [Verdantia |-> "stockpile", Aridia |-> "focus_energy",
              Temperalis |-> "stockpile", Borealis |-> "balance",
              Glaciera |-> "focus_water", Maritosa |-> "conserve",
              Montarok |-> "stockpile", Fluviana |-> "research"],
   trade |-> Uniform("trade"),
   idle |-> [Verdantia |-> "none", Aridia |-> UnknownTag,
             Temperalis |-> "none", Borealis |-> UnknownTag,
             Glaciera |-> "none", Maritosa |-> UnknownTag,
             Montarok |-> "none", Fluviana |-> UnknownTag],
   wait |-> [Verdantia |-> "focus_food", Aridia |-> "focus_food",
             Temperalis |-> "focus_food", Borealis |-> "none",
             Glaciera |-> "none", Maritosa |-> "focus_food",
             Montarok |-> "none", Fluviana |-> "focus_food"],
   sell |-> [Verdantia |-> "trade", Aridia |-> "trade",
             Temperalis |-> "trade", Borealis |-> "research",
             Glaciera |-> "trade", Maritosa |-> "trade",
             Montarok |-> "research", Fluviana |-> "trade"]]

NoEvent == [type |-> "none", severity |-> 0]

Ev(type, severity) == [type |-> type, severity |-> severity]

\* severities explored: 0.3, 0.5, 0.9 and 0.99 of the local
\* uniform(0.3, 1.0), 0.2 and 0.4 of the global uniform(0.15, 0.50)
\* the droughts of the dry years, which every biome can have in Summer
DryYear ==
  [Verdantia |-> Ev("drought", 500), Aridia |-> NoEvent,
   Temperalis |-> Ev("drought", 500), Borealis |-> Ev("drought", 300),
   Glaciera |-> NoEvent, Maritosa |-> Ev("drought", 990),
   Montarok |-> NoEvent, Fluviana |-> Ev("drought", 990)]

\* outcomes of the draws of one cycle: local[n] is the local event drawn for
\* region n (if it is alive and its biome can have it in the season),
\* global the global event, u the value of every acceptance draw
DrawOutcomes ==
  [calm |-> [local |-> Eager([n \in NameSet |-> NoEvent]),
             global |-> NoEvent, u |-> 0],
   plague |-> [local |-> [Verdantia |-> Ev("plague", 900),
                          Aridia |-> Ev("earthquake", 900),
                          Temperalis |-> Ev("plague", 900),
                          Borealis |-> Ev("earthquake", 900),
                          Glaciera |-> Ev("earthquake", 900),
                          Maritosa |-> Ev("plague", 900),
                          Montarok |-> Ev("volcanic_eruption", 900),
                          Fluviana |-> Ev("plague", 900)],
               global |-> Ev("plague", 400), u |-> 990],
   embargo |-> [local |-> [Verdantia |-> Ev("flood", 300),
                           Aridia |-> Ev("trade_disruption", 900),
                           Temperalis |-> Ev("drought", 900),
                           Borealis |-> Ev("energy_crisis", 300),
                           Glaciera |-> NoEvent,
                           Maritosa |-> Ev("trade_disruption", 300),
                           Montarok |-> Ev("flood", 900),
                           Fluviana |-> NoEvent],
                global |-> Ev("trade_disruption", 400), u |-> 0],
   boom |-> [local |-> [Verdantia |-> Ev("bumper_harvest", 900),
                        Aridia |-> Ev("energy_boom", 900),
                        Temperalis |-> Ev("technological_leap", 900),
                        Borealis |-> Ev("bumper_harvest", 300),
                        Glaciera |-> Ev("water_discovery", 900),
                        Maritosa |-> Ev("water_discovery", 300),
                        Montarok |-> Ev("energy_boom", 300),
                        Fluviana |-> Ev("technological_leap", 300)],
             global |-> Ev("drought", 200), u |-> 600],
   dry |-> [local |-> DryYear, global |-> NoEvent, u |-> 990],
   market |-> [local |-> DryYear, global |-> NoEvent, u |-> 0]]

ProfileIds == {"mixed", "hoard", "trade", "idle"}

DrawIds == {"calm", "plague", "embargo", "boom"}

\* the inputs explored in the dry years
MarketProfileIds == {"wait", "sell"}

MarketDrawIds == {"dry", "market"}

\* draws of the agents in one cycle: draws[n] holds the values agent n gets
\* from random.random(), random.randint and np.random.choice
AgentDraws ==
  [trader |-> Eager([n \in NameSet |-> [u |-> 0, r |-> 5, c |-> 0]]),
   greedy |-> Eager([n \in NameSet |->
                [u |-> 999, r |-> NameIdx(n) % NUM_ACTIONS, c |-> NameIdx(n)]]),
   rover |-> Eager([n \in NameSet |->
                [u |-> 0, r |-> (2 * NameIdx(n) + 1) % NUM_ACTIONS, c |-> 1]])]

AgentDrawIds == DOMAIN AgentDraws

\* the inputs explored under the driver loop, with two instances and with
\* direct calls of the climate system
DriverDrawIds == {"calm", "plague"}

TwoDrawIds == {"boom"}

ClimateDrawIds == {"calm", "embargo"}

TwoAgentDrawIds == {"rover"}

\* ------------------------------------------------------------------------
\* State
\* ------------------------------------------------------------------------
VARIABLES
  REGION_CONFIGS,  \* the mutable dicts of the class attribute World.REGION_CONFIGS
  worlds,          \* the World objects of the process
  managers,        \* the AgentManager objects of the process
  driver,          \* run_simulation of each instance: the next call and its locals
  py_random,       \* the process-wide generators random and np.random
  log,             \* the cycle log returned by the last step of each World
  script,          \* the decision inputs chosen so far, one per cycle
  stream,          \* the draw outcomes chosen so far, one per cycle
  after,           \* cycles run since the inputs changed (0: no change yet)
  phases           \* the regions between the phases of the last step

vars == <<REGION_CONFIGS, worlds, managers, driver, py_random, log, script,
          stream, after, phases>>

WorldIds == {1, 2}

NoPhases == [pre_action |-> <<>>, post_action |-> <<>>, pre_trade |-> <<>>,
             post_trade |-> <<>>, decisions |-> <<>>]

Seed == 42

\* a generator that has not been seeded by the program, and one after
\* seed(s)
Unseeded == [seeded |-> FALSE, seed |-> 0, calls |-> 0]

Seeded(s) == [seeded |-> TRUE, seed |-> s, calls |-> 0]

\* run_simulation not started
NoDriver == [pc |-> "off", cycles |-> 0, prev_snapshot |-> <<>>,
             decisions |-> <<>>, began_alive |-> {}]

\* run_simulation after its two constructor calls
NewDriver(cycles) == [NoDriver EXCEPT !.pc = "snapshot_states",
                                      !.cycles = cycles]

\* World(seed=Seed) has been constructed; no AgentManager
Init ==
  /\ REGION_CONFIGS = InitialConfigs
  /\ worlds = [w \in WorldIds |-> IF w = 1 THEN NewWorld(Seed) ELSE NoWorld]
  /\ managers = [w \in WorldIds |-> NoManager]
  /\ driver = [w \in WorldIds |-> NoDriver]
  /\ py_random = [random |-> Seeded(Seed), np_random |-> Unseeded]
  /\ log = [w \in WorldIds |-> NoLog]
  /\ script = <<>>
  /\ stream = <<>>
  /\ after = 0
  /\ phases = NoPhases

\* World.step of world w
StepWorld(w, decisions, draws) ==
  LET out == step(worlds[w], REGION_CONFIGS, decisions, draws)
  IN /\ worlds' = [worlds EXCEPT ![w] = out.world]
     /\ REGION_CONFIGS' = out.configs
     /\ log' = [log EXCEPT ![w] = out.log]
     /\ phases' = out.phases

\* World.__init__ of world w: random.seed(seed), then the regions
ConstructWorld(w, seed) ==
  /\ ~worlds[w].constructed
  /\ worlds' = [worlds EXCEPT ![w] = NewWorld(seed)]
  /\ py_random' = [py_random EXCEPT !.random = Seeded(seed)]
  /\ UNCHANGED <<REGION_CONFIGS, managers, driver, log, phases>>

\* run_simulation, the two constructor calls: World(seed) and
\* AgentManager(names, seed), which seeds random and np.random
StartRun(w, seed, cycles) ==
  /\ ~worlds[w].constructed
  /\ worlds' = [worlds EXCEPT ![w] = NewWorld(seed)]
  /\ managers' = [managers EXCEPT ![w] = NewManager(seed)]
  /\ py_random' = [random |-> Seeded(seed), np_random |-> Seeded(seed)]
  /\ driver' = [driver EXCEPT ![w] = NewDriver(cycles)]
  /\ UNCHANGED <<REGION_CONFIGS, log, phases>>

\* run_simulation: prev_snapshot = agent_manager.snapshot_states(world);
\* began_alive records which regions are alive as the cycle begins
SnapshotStates(w) ==
  /\ driver[w].pc = "snapshot_states"
  /\ worlds[w].cycle < driver[w].cycles
  /\ LET regs == RegionsOf(worlds[w], REGION_CONFIGS)
     IN driver' = [driver EXCEPT
                     ![w].pc = "get_decisions",
                     ![w].prev_snapshot = snapshot_states(regs),
                     ![w].began_alive = {n \in NameSet : regs[n].is_alive}]
  /\ UNCHANGED <<REGION_CONFIGS, worlds, managers, py_random, log, phases>>

\* run_simulation: decisions = agent_manager.get_decisions(world)
GetDecisions(w, draws) ==
  /\ driver[w].pc = "get_decisions"
  /\ LET out == get_decisions(managers[w],
                              RegionsOf(worlds[w], REGION_CONFIGS), draws)
     IN /\ managers' = [managers EXCEPT ![w] = out.manager]
        /\ driver' = [driver EXCEPT ![w].pc = "step",
                                    ![w].decisions = out.decisions]
        /\ py_random' = [py_random EXCEPT
                           !.random.calls = @ + out.random_calls,
                           !.np_random.calls = @ + out.np_random_calls]
  /\ UNCHANGED <<REGION_CONFIGS, worlds, log, phases>>

\* run_simulation: world.step(decisions)
DriverStep(w, draws) ==
  /\ driver[w].pc = "step"
  /\ StepWorld(w, driver[w].decisions, draws)
  /\ driver' = [driver EXCEPT ![w].pc = "update_all"]
  /\ UNCHANGED <<managers, py_random>>

\* run_simulation: agent_manager.update_all(world, prev_snapshot)
UpdateAll(w) ==
  /\ driver[w].pc = "update_all"
  /\ managers' = [managers EXCEPT ![w] =
        update_all(managers[w], RegionsOf(worlds[w], REGION_CONFIGS),
                   worlds[w].cycle, driver[w].prev_snapshot)]
  /\ driver' = [driver EXCEPT ![w].pc = "snapshot_states"]
  /\ UNCHANGED <<REGION_CONFIGS, worlds, py_random, log, phases>>

\* ------------------------------------------------------------------------
\* Spec: one World stepped with externally supplied decisions
\* ------------------------------------------------------------------------
\* The inputs explored stay the same from cycle to cycle, except for one
\* change at an arbitrary cycle, after which MaxAfter cycles are run.
SameAsLast(p, d) ==
  script # <<>> /\ p = script[Len(script)] /\ d = stream[Len(stream)]

InputAllowed(p, d) ==
  \/ script = <<>>
  \/ SameAsLast(p, d) /\ (after = 0 \/ after < MaxAfter)
  \/ ~SameAsLast(p, d) /\ after = 0

\* world 1 is stepped with decisions p; its generator yields outcomes d
Step(p, d) ==
  /\ worlds[1].cycle < MaxCycles
  /\ worlds[1].cycle = Len(script)
  /\ InputAllowed(p, d)
  /\ StepWorld(1, DecisionProfiles[p], DrawOutcomes[d])
  /\ script' = Append(script, p)
  /\ stream' = Append(stream, d)
  /\ after' = IF script # <<>> /\ (after > 0 \/ ~SameAsLast(p, d))
              THEN after + 1 ELSE 0
  /\ UNCHANGED <<managers, driver, py_random>>

Next == \E p \in ProfileIds, d \in DrawIds : Step(p, d)

Spec == Init /\ [][Next]_vars

\* ------------------------------------------------------------------------
\* SpecMarket: one World stepped through dry years, in which the regions
\* wait or go to market.  The inputs stay the same from cycle to cycle,
\* except for one change, as in Spec.
\* ------------------------------------------------------------------------
MarketStep(p, d) ==
  /\ worlds[1].cycle < MaxMarketCycles
  /\ worlds[1].cycle = Len(script)
  /\ InputAllowed(p, d)
  /\ StepWorld(1, DecisionProfiles[p], DrawOutcomes[d])
  /\ script' = Append(script, p)
  /\ stream' = Append(stream, d)
  /\ after' = IF script # <<>> /\ (after > 0 \/ ~SameAsLast(p, d))
              THEN after + 1 ELSE 0
  /\ UNCHANGED <<managers, driver, py_random>>

NextMarket == \E p \in MarketProfileIds, d \in MarketDrawIds : MarketStep(p, d)

SpecMarket == Init /\ [][NextMarket]_vars

\* ------------------------------------------------------------------------
\* SpecDriver: one instance run by run_simulation for MaxDriverCycles
\* cycles.  The draws stay the same from cycle to cycle, except for one
\* change, as in Spec.
\* ------------------------------------------------------------------------
InitDriver ==
  /\ REGION_CONFIGS = InitialConfigs
  /\ worlds = [w \in WorldIds |-> IF w = 1 THEN NewWorld(Seed) ELSE NoWorld]
  /\ managers = [w \in WorldIds |-> IF w = 1 THEN NewManager(Seed) ELSE NoManager]
  /\ driver = [w \in WorldIds |->
                 IF w = 1 THEN NewDriver(MaxDriverCycles) ELSE NoDriver]
  /\ py_random = [random |-> Seeded(Seed), np_random |-> Seeded(Seed)]
  /\ log = [w \in WorldIds |-> NoLog]
  /\ script = <<>>
  /\ stream = <<>>
  /\ after = 0
  /\ phases = NoPhases

\* a draw outcome x may follow the outcomes chosen so far
DrawAllowed(chosen, x) ==
  IF chosen = <<>> THEN TRUE ELSE x = chosen[Len(chosen)] \/ after = 0

DrawChanges(chosen, x) ==
  IF chosen = <<>> THEN FALSE ELSE x # chosen[Len(chosen)]

DriverSnapshot ==
  /\ after <= MaxAfter
  /\ SnapshotStates(1)
  /\ UNCHANGED <<script, stream, after>>

DriverDecide(a) ==
  /\ DrawAllowed(script, a)
  /\ GetDecisions(1, AgentDraws[a])
  /\ script' = Append(script, a)
  /\ after' = IF DrawChanges(script, a) THEN 1 ELSE after
  /\ UNCHANGED stream

DriverWorldStep(d) ==
  /\ DrawAllowed(stream, d)
  /\ DriverStep(1, DrawOutcomes[d])
  /\ stream' = Append(stream, d)
  /\ after' = IF DrawChanges(stream, d) THEN 1 ELSE after
  /\ UNCHANGED script

DriverUpdate ==
  /\ UpdateAll(1)
  /\ after' = IF after > 0 THEN after + 1 ELSE 0
  /\ UNCHANGED <<script, stream>>

NextDriver ==
  \/ DriverSnapshot
  \/ \E a \in AgentDrawIds : DriverDecide(a)
  \/ \E d \in DriverDrawIds : DriverWorldStep(d)
  \/ DriverUpdate

SpecDriver == InitDriver /\ [][NextDriver]_vars

\* ------------------------------------------------------------------------
\* SpecTwo: two instances in one process, their cycles interleaved
\* ------------------------------------------------------------------------
InitTwo ==
  /\ REGION_CONFIGS = InitialConfigs
  /\ worlds = [w \in WorldIds |-> NoWorld]
  /\ managers = [w \in WorldIds |-> NoManager]
  /\ driver = [w \in WorldIds |-> NoDriver]
  /\ py_random = [random |-> Unseeded, np_random |-> Unseeded]
  /\ log = [w \in WorldIds |-> NoLog]
  /\ script = <<>>
  /\ stream = <<>>
  /\ after = 0
  /\ phases = NoPhases

TwoStart(w) == StartRun(w, Seed + w - 1, MaxTwoCycles)

TwoSnapshot(w) == SnapshotStates(w)

TwoDecide(w, a) == GetDecisions(w, AgentDraws[a])

TwoWorldStep(w, d) == DriverStep(w, DrawOutcomes[d])

TwoUpdate(w) == UpdateAll(w)

NextTwo ==
  /\ \E w \in WorldIds :
        \/ TwoStart(w)
        \/ TwoSnapshot(w)
        \/ \E a \in TwoAgentDrawIds : TwoDecide(w, a)
        \/ \E d \in TwoDrawIds : TwoWorldStep(w, d)
        \/ TwoUpdate(w)
  /\ UNCHANGED <<script, stream, after>>

SpecTwo == InitTwo /\ [][NextTwo]_vars

\* ------------------------------------------------------------------------
\* SpecRerun: a run of MaxTwoCycles cycles at most, then a second World
\* constructed in the same process with the same seed and stepped with
\* the same decisions; its RandomState(seed) yields the same outcomes
\* ------------------------------------------------------------------------
RunFirst(p, d) ==
  /\ ~worlds[2].constructed
  /\ worlds[1].cycle < MaxTwoCycles
  /\ StepWorld(1, DecisionProfiles[p], DrawOutcomes[d])
  /\ script' = Append(script, p)
  /\ stream' = Append(stream, d)
  /\ UNCHANGED <<managers, driver, py_random, after>>

ConstructSecond ==
  /\ worlds[1].cycle >= 1
  /\ ConstructWorld(2, Seed)
  /\ UNCHANGED <<script, stream, after>>

RunSecond ==
  /\ worlds[2].constructed
  /\ worlds[2].cycle < Len(script)
  /\ StepWorld(2, DecisionProfiles[script[worlds[2].cycle + 1]],
               DrawOutcomes[stream[worlds[2].cycle + 1]])
  /\ UNCHANGED <<managers, driver, py_random, script, stream, after>>

NextRerun ==
  \/ \E p \in ProfileIds, d \in DrawIds : RunFirst(p, d)
  \/ ConstructSecond
  \/ RunSecond

SpecRerun == Init /\ [][NextRerun]_vars

\* ------------------------------------------------------------------------
\* SpecClimate: World.step and direct calls of
\* world.climate.generate_events(world.regions, world.cycle), in any order
\* ------------------------------------------------------------------------
\* ClimateSystem.generate_events: advance(cycle), then the events of the
\* cycle, a list that is returned and changes no state
GenerateEvents ==
  /\ worlds' = [worlds EXCEPT ![1].climate = advance(@, worlds[1].cycle)]
  /\ UNCHANGED <<REGION_CONFIGS, managers, driver, py_random, log, script,
                 stream, after, phases>>

ClimateStep(p, d) ==
  /\ worlds[1].cycle < MaxClimateSteps
  /\ StepWorld(1, DecisionProfiles[p], DrawOutcomes[d])
  /\ UNCHANGED <<managers, driver, py_random, script, stream, after>>

NextClimate ==
  \/ GenerateEvents
  \/ \E d \in ClimateDrawIds : ClimateStep("trade", d)

SpecClimate == Init /\ [][NextClimate]_vars

\* ------------------------------------------------------------------------
\* Properties
\* ------------------------------------------------------------------------
W1 == worlds[1]

Alive(n) == W1.regions[n].is_alive

\* C1: in every state of a World (so after every step), every resource of
\* every region lies between 0 and the region's current max_resources.
C1_ResourceBounds ==
  \A n \in NameSet : \A k \in ResSet :
     /\ 0 <= REGION_CONFIGS[n].resources[k]
     /\ REGION_CONFIGS[n].resources[k] <= REGION_CONFIGS[n].max_resources[k]

\* steps have run with stockpile raising a capacity, with events and trades,
\* and a resource of a living region sits exactly at its capacity
C1_Witness ==
  /\ W1.cycle > 0
  /\ \E n \in NameSet : REGION_CONFIGS[n].max_resources["water"]
                          > CONFIG_TABLE[n].max_resources["water"]
  /\ \E n \in NameSet : \E k \in ResSet :
        Alive(n) /\ REGION_CONFIGS[n].resources[k]
                      = REGION_CONFIGS[n].max_resources[k]
  /\ W1.trade.trade_history # <<>>
  /\ W1.event_history # <<>>

\* C2: a step leaves the population and the four resources of every region
\* that is dead before the step exactly as they were.
C2_DeadRegionFrozen ==
  [][\A n \in NameSet :
       ~worlds[1].regions[n].is_alive =>
          /\ worlds'[1].regions[n].population = worlds[1].regions[n].population
          /\ REGION_CONFIGS'[n].resources = REGION_CONFIGS[n].resources
          /\ ~worlds'[1].regions[n].is_alive]_vars

\* a region collapsed in an earlier cycle, and the last step, which was
\* handed one of the 9 actions for it, had events and trades
C2_Witness ==
  \E n \in NameSet :
     /\ ~Alive(n)
     /\ W1.regions[n].collapse_cycle < W1.cycle
     /\ phases.decisions[n] \in ActionSet
     /\ log[1].events # <<>>
     /\ log[1].trades # <<>>

\* C3: a second World constructed with the same seed in the same process,
\* after the first World has been stepped, and stepped with the same
\* decisions, has when it reaches the first World's cycle the same event
\* sequence, the same trade log and the same region states as the first
\* World had at the end of its run.
C3_RerunIdentical ==
  (worlds[2].constructed /\ worlds[2].cycle = worlds[1].cycle) =>
     /\ worlds[2].event_history = worlds[1].event_history
     /\ worlds[2].trade.trade_history = worlds[1].trade.trade_history
     /\ worlds[2].regions = worlds[1].regions
     /\ [n \in NameSet |-> REGION_CONFIGS[n].resources]
          = worlds[1].resource_history[Len(worlds[1].resource_history)]

\* C4: a call made by one instance (its driver moves) changes neither the
\* resources, max_resources and production_rates of the regions of the
\* other instance's World nor the random sources the other instance uses.
C4_InstancesIndependent ==
  [][\A w \in WorldIds : \A v \in WorldIds \ {w} :
        (driver[v].pc # "off" /\ driver'[w] # driver[w]) =>
           /\ DictsOf(RegionsOf(worlds[v], REGION_CONFIGS'))
                = DictsOf(RegionsOf(worlds[v], REGION_CONFIGS))
           /\ py_random' = py_random]_vars

\* C5: every relationship score lies in [0.1, 1.0].
C5_RelationshipBounds ==
  \A key \in DOMAIN W1.trade.relationship :
     /\ 100 <= W1.trade.relationship[key]
     /\ W1.trade.relationship[key] <= 1000

\* disruptions have driven a score down to the floor and a trade has
\* raised another one above it
C5_Witness ==
  /\ \E key \in DOMAIN W1.trade.relationship : W1.trade.relationship[key] = 100
  /\ \E key \in DOMAIN W1.trade.relationship : W1.trade.relationship[key] > 100
  /\ W1.trade.trade_history # <<>>
  /\ \E i \in 1..Len(W1.event_history) :
        W1.event_history[i].type = "trade_disruption"

\* C6: climate_stress is at most 0.45 in every state and no call of
\* generate_events or World.step decreases it.
C6_StressMonotoneCapped ==
  /\ [](W1.climate.climate_stress <= 4500)
  /\ [][W1.climate.climate_stress' >= W1.climate.climate_stress]_vars

\* the limit 0.45 has been reached, by steps and by direct calls
C6_Witness ==
  /\ W1.climate.climate_stress = 4500
  /\ W1.cycle = MaxClimateSteps

\* C7: under the driver loop, update_all calls update exactly once for each
\* agent whose region was alive when the cycle began, with a reward that
\* carries the death penalty if the region collapsed in the cycle, and not
\* at all for the other agents; no other call of the loop calls update.
Updates(m, n) == Len(m.agents[n].reward_history)

C7_UpdateOncePerLivingCycle ==
  [][\A n \in NameSet :
        IF driver[1].pc = "update_all"
        THEN /\ Updates(managers'[1], n) - Updates(managers[1], n)
                  = IF n \in driver[1].began_alive THEN 1 ELSE 0
             /\ (n \in driver[1].began_alive /\ ~W1.regions[n].is_alive) =>
                   managers'[1].agents[n].reward_history[
                      Updates(managers'[1], n)] < 0 - 20000
        ELSE Updates(managers'[1], n) = Updates(managers[1], n)]_vars

\* a region collapsed in an earlier cycle, its agent was updated in each of
\* the cycles up to that one, and the loop has completed later cycles in
\* which other regions were alive
C7_Witness ==
  /\ driver[1].pc = "snapshot_states"
  /\ \E n \in NameSet :
        /\ ~W1.regions[n].is_alive
        /\ W1.regions[n].collapse_cycle < W1.cycle
        /\ Updates(managers[1], n) = W1.regions[n].collapse_cycle
  /\ \E n \in NameSet : W1.regions[n].is_alive /\ Updates(managers[1], n) = W1.cycle

\* C8: step never raises: every call returns the log of its cycle and has
\* recorded the cycle (phase 7).
C8_StepNeverRaises ==
  /\ ~log[1].raised
  /\ log[1].cycle = W1.cycle
  /\ Len(W1.season_history) = W1.cycle
  /\ Len(W1.resource_history) = W1.cycle

\* a step has run on a world all of whose regions had collapsed before it
C8_Witness ==
  /\ \A n \in NameSet : ~Alive(n) /\ W1.regions[n].collapse_cycle < W1.cycle
  /\ \E n \in NameSet : phases.decisions[n] = UnknownTag
  /\ ~log[1].raised

\* C9: in the action phase of a step, a living region whose decision is none
\* of the 9 actions keeps its resources, max_resources, happiness, tech_level.
C9_UnknownActionNoOp ==
  W1.cycle > 0 =>
    \A n \in NameSet :
       (phases.pre_action[n].is_alive /\ phases.decisions[n] \notin ActionSet)
       => /\ phases.post_action[n].resources = phases.pre_action[n].resources
          /\ phases.post_action[n].max_resources
               = phases.pre_action[n].max_resources
          /\ phases.post_action[n].happiness = phases.pre_action[n].happiness
          /\ phases.post_action[n].tech_level = phases.pre_action[n].tech_level

\* the last step applied "none" to one living region and a misspelt tag to
\* another, in a world where events have occurred and a stockpile has
\* raised the capacity of one of these regions before
C9_Witness ==
  /\ W1.cycle > 0
  /\ \E n \in NameSet : phases.pre_action[n].is_alive
                        /\ phases.decisions[n] = "none"
  /\ \E n \in NameSet : phases.pre_action[n].is_alive
                        /\ phases.decisions[n] = UnknownTag
  /\ \E n \in NameSet :
        /\ phases.pre_action[n].is_alive
        /\ phases.decisions[n] \notin ActionSet
        /\ phases.pre_action[n].max_resources["water"]
             > CONFIG_TABLE[n].max_resources["water"]
  /\ W1.event_history # <<>>

\* the pairs that traded in the last negotiate_trades call
TradedPairs == {RelKey(phases.post_trade.trades[i].buyer,
                       phases.post_trade.trades[i].seller) :
                  i \in 1..Len(phases.post_trade.trades)}

\* C10: a negotiate_trades call that finds the flag set clears it, returns no
\* trade, appends nothing to trade_history and changes no resources; the flag
\* is clear after every step, and a call that finds it clear negotiates
\* (it decays the relationships).
C10_DisruptionOneShot ==
  /\ ~W1.trade.disrupted
  /\ W1.cycle > 0 =>
       IF phases.pre_trade.trade.disrupted
       THEN /\ phases.post_trade.trades = <<>>
            /\ log[1].trades = <<>>
            /\ ~phases.post_trade.trade.disrupted
            /\ phases.post_trade.trade.trade_history
                 = phases.pre_trade.trade.trade_history
            /\ phases.post_trade.trade.relationship
                 = phases.pre_trade.trade.relationship
            /\ \A n \in NameSet : phases.post_trade.regs[n].resources
                                    = phases.pre_trade.regs[n].resources
       ELSE \A key \in DOMAIN phases.pre_trade.trade.relationship :
               key \notin TradedPairs =>
                  phases.post_trade.trade.relationship[key]
                    = Max2(100, phases.pre_trade.trade.relationship[key] - 3)

\* the call of the previous cycle was blocked by a disruption and the call
\* of this cycle executed a trade
C10_Witness ==
  /\ W1.cycle >= 2
  /\ \E i \in 1..Len(W1.event_history) :
        /\ W1.event_history[i].type = "trade_disruption"
        /\ W1.event_history[i].cycle = W1.cycle - 1
  /\ W1.trade_count_history[W1.cycle - 1] = 0
  /\ ~phases.pre_trade.trade.disrupted
  /\ W1.trade_count_history[W1.cycle] > 0

\* the trade records returned by the last negotiate_trades call of world 1
LastTrades == phases.post_trade.trades

\* C11: in one negotiate_trades call, no region is the buyer of two
\* executed trades.
C11_OneTradePerBuyer ==
  W1.cycle > 0 =>
    \A i \in 1..Len(LastTrades) : \A j \in 1..Len(LastTrades) :
       i # j => LastTrades[i].buyer # LastTrades[j].buyer


\* the transfers of the last negotiate_trades call of world 1
LastTransfers == phases.post_trade.transfers

\* need of the buyer of transfer t: 0.35*max_resources - current, on the
\* regions the call was given
NeedOf(t) ==
  (phases.pre_trade.regs[t.buyer].max_resources[t.res] * 35) \div 100
    - phases.pre_trade.regs[t.buyer].resources[t.res]

\* what the seller of transfer i still offers of the bought resource:
\* 0.30*surplus on the regions the call was given, less its earlier
\* transfers of that resource in the call
RECURSIVE SoldBefore(_, _)
SoldBefore(i, j) ==
  IF j >= i THEN 0
  ELSE (IF /\ LastTransfers[j].seller = LastTransfers[i].seller
           /\ LastTransfers[j].res = LastTransfers[i].res
        THEN LastTransfers[j].trade_amt ELSE 0) + SoldBefore(i, j + 1)

RemainingOf(i) ==
  (surplus(phases.pre_trade.regs[LastTransfers[i].seller],
           LastTransfers[i].res) * 30) \div 100 - SoldBefore(i, 1)

\* the trade scenario: Verdantia holds 700/1000 water and consumes 30 per
\* cycle, Aridia holds 50/500 water and chose "trade"; the draw accepts
TradeScenario ==
  LET world == NewWorld(Seed)
      regs == RegionsOf(world, InitialConfigs)
      regs1 == [regs EXCEPT !["Verdantia"].resources["water"] = 70000,
                            !["Aridia"].resources["water"] = 5000]
  IN negotiate_trades([regs |-> regs1, trade |-> world.trade],
                      Uniform("trade"), 1, 0)

Agent1(n) == managers[1].agents[n]

\* the discretized state of region n of world 1 as it is now: the state the
\* next get_action or update of its agent reads
CurrentState(n) == get_state_tuple(RegionsOf(W1, REGION_CONFIGS)[n])

\* the Q-values an agent's code reads for state s (a defaultdict lookup)
QRead(agent, s) == q_table_read(agent.q_table, s)[s]

\* C13: for every agent, whatever state has not been the target of an update
\* reads as 0 for every action, be it a key of the table (inserted by an
\* earlier read in get_action or as next state in update) or not.
C13_UnseenStatesReadZero ==
  managers[1] # NoManager =>
    \A n \in NameSet :
      \A s \in ((DOMAIN Agent1(n).q_table) \cup {CurrentState(n)})
                  \ Agent1(n).update_targets :
         QRead(Agent1(n), s) = zeros

\* get_action has just read, greedily, the Q-values of a state that was
\* never an update target and that the preceding update read as its next
\* state, for an agent that has learnt a non-zero value for another state
C13_Witness ==
  /\ driver[1].pc = "step"
  /\ script # <<>>
  /\ script[Len(script)] = "greedy"
  /\ \E n \in NameSet :
       /\ Updates(managers[1], n) > 0
       /\ \E s \in Agent1(n).update_targets : QRead(Agent1(n), s) # zeros
       /\ Agent1(n).last_state \notin Agent1(n).update_targets
       /\ Agent1(n).last_state \in DOMAIN Agent1(n).q_table
       /\ W1.regions[n].is_alive


\* ------------------------------------------------------------------------
\* SpecAgent: the methods of one QLearningAgent called directly
\* ------------------------------------------------------------------------
\* The first MaxFreeCalls calls are get_action or update in any order with
\* any of the inputs below; from then on get_action and update alternate
\* with the same inputs, up to MaxUpdates updates.
MaxUpdates == 505

MaxFreeCalls == 2

AgentName == "Aridia"

\* the agent the calls are made on
TheAgent == managers[1].agents[AgentName]

\* states handed to the agent: the initial states of two regions
AgentStates ==
  {get_state_tuple(RegionsOf(NewWorld(Seed), InitialConfigs)[n]) :
     n \in {"Aridia", "Verdantia"}}

\* rewards handed to update, in 1/1000
AgentRewards == {0 - 25500, 3500}

LaterState == get_state_tuple(RegionsOf(NewWorld(Seed), InitialConfigs)[AgentName])

LaterReward == CHOOSE r \in AgentRewards : r > 0

AgentCallDrawIds == {"trader", "greedy"}

Calls(agent) == Len(agent.action_history) + Len(agent.reward_history)

InitAgent ==
  /\ REGION_CONFIGS = InitialConfigs
  /\ worlds = [w \in WorldIds |-> IF w = 1 THEN NewWorld(Seed) ELSE NoWorld]
  /\ managers = [w \in WorldIds |-> IF w = 1 THEN NewManager(Seed) ELSE NoManager]
  /\ driver = [w \in WorldIds |-> NoDriver]
  /\ py_random = [random |-> Seeded(Seed), np_random |-> Seeded(Seed)]
  /\ log = [w \in WorldIds |-> NoLog]
  /\ script = <<>>
  /\ stream = <<>>
  /\ after = 0
  /\ phases = NoPhases

\* agent.get_action(s) with the draws a; after = 1 records that the last
\* call was get_action
AgentGetAction(s, a) ==
  /\ Len(TheAgent.reward_history) < MaxUpdates
  /\ IF Calls(TheAgent) < MaxFreeCalls THEN TRUE
     ELSE after # 1 /\ s = LaterState /\ a = "greedy"
  /\ LET out == get_action(TheAgent, s, AgentDraws[a][AgentName])
     IN /\ managers' = [managers EXCEPT ![1].agents[AgentName] = out.agent]
        /\ py_random' = [py_random EXCEPT
                           !.random.calls = @ + out.random_calls,
                           !.np_random.calls = @ + out.np_random_calls]
  /\ after' = 1
  /\ UNCHANGED <<REGION_CONFIGS, worlds, driver, log, script, stream, phases>>

\* agent.update(s, r); after = 2 records that the last call was update
AgentUpdate(s, r) ==
  /\ Len(TheAgent.reward_history) < MaxUpdates
  /\ IF Calls(TheAgent) < MaxFreeCalls THEN TRUE
     ELSE after # 2 /\ s = LaterState /\ r = LaterReward
  /\ managers' = [managers EXCEPT ![1].agents[AgentName] = update(TheAgent, s, r)]
  /\ after' = 2
  /\ UNCHANGED <<REGION_CONFIGS, worlds, driver, py_random, log, script,
                 stream, phases>>

NextAgent ==
  \/ \E s \in AgentStates : \E a \in AgentCallDrawIds : AgentGetAction(s, a)
  \/ \E s \in AgentStates : \E r \in AgentRewards : AgentUpdate(s, r)

SpecAgent == InitAgent /\ [][NextAgent]_vars

\* C14: from one call to the next an agent's epsilon never increases and
\* never falls below epsilon_end; get_action leaves it unchanged and update
\* replaces it with max(epsilon_end, epsilon*epsilon_decay).
C14_EpsilonDecay ==
  [][/\ TheAgent'.epsilon <= TheAgent.epsilon
     /\ TheAgent'.epsilon >= TheAgent.epsilon_end
     /\ TheAgent'.epsilon_end = TheAgent.epsilon_end
     /\ TheAgent'.epsilon_decay = TheAgent.epsilon_decay
     /\ Len(TheAgent'.action_history) > Len(TheAgent.action_history) =>
           TheAgent'.epsilon = TheAgent.epsilon
     /\ Len(TheAgent'.reward_history) > Len(TheAgent.reward_history) =>
           TheAgent'.epsilon
             = Max2(TheAgent.epsilon_end,
                    (TheAgent.epsilon * TheAgent.epsilon_decay + 500) \div 1000)
     ]_vars

\* get_action has been called with epsilon at the floor, after updates that
\* lowered it and an update that the floor stopped
C14_Witness ==
  /\ after = 1
  /\ TheAgent.epsilon = TheAgent.epsilon_end
  /\ Len(TheAgent.epsilon_history) > 2
  /\ TheAgent.epsilon_history[Len(TheAgent.epsilon_history)]
       = TheAgent.epsilon_end
  /\ TheAgent.epsilon_history[Len(TheAgent.epsilon_history) - 1]
       = TheAgent.epsilon_end
  /\ TheAgent.epsilon_history[1] > TheAgent.epsilon_history[2]


\* C15: with epsilon_start 1.0, epsilon_decay 0.994 and epsilon_end 0.05 an
\* agent's epsilon is at the floor 0.05 once update has been called 500 times
\* and after every later update.
C15_FloorWithin500 ==
  Len(TheAgent.reward_history) >= 500 => TheAgent.epsilon = 50000

\* update has been called more than 500 times on an agent constructed with
\* the three default values; epsilon was still above the floor at some
\* get_action between the 400th and the 500th update
C15_Witness ==
  /\ NewAgent(AgentName).epsilon = 1000000
  /\ TheAgent.epsilon_decay = 994
  /\ TheAgent.epsilon_end = 50000
  /\ Len(TheAgent.reward_history) = MaxUpdates
  /\ TheAgent.epsilon = 50000
  /\ \E i \in 400..Len(TheAgent.epsilon_history) :
        TheAgent.epsilon_history[i] > 50000


\* region n of world 1 as it was when the snapshot of the cycle was taken,
\* as far as the reward reads it: the snapshot's resources, population and
\* happiness, and the max_resources the region had then (phases 1 and 2 of
\* step leave max_resources alone)
AtSnapshot(n) ==
  [RegionsOf(W1, REGION_CONFIGS)[n] EXCEPT
     !.resources = driver[1].prev_snapshot[n].resources,
     !.population = driver[1].prev_snapshot[n].population,
     !.happiness = driver[1].prev_snapshot[n].happiness,
     !.max_resources = phases.pre_action[n].max_resources]

\* C16: compute_reward changes neither the region nor the snapshot, and the
\* reward it returns is the sum of the seven terms, in which each resource
\* contributes its tier plus 5.0 times the rise of its ratio since the
\* snapshot (1.5 + 5.0*d for a ratio now above 0.55).
C16_RewardTerms ==
  [][driver[1].pc = "update_all" =>
       /\ worlds' = worlds
       /\ REGION_CONFIGS' = REGION_CONFIGS
       /\ driver'[1].prev_snapshot = driver[1].prev_snapshot
       /\ \A n \in driver[1].began_alive :
            LET now == RegionsOf(W1, REGION_CONFIGS)[n]
                before == AtSnapshot(n)
                rewards == managers'[1].agents[n].reward_history
                TierAndImprovement(res) ==
                  RewardTier(now, res)
                    + 5 * (resource_ratio(now, res) - resource_ratio(before, res))
                min_ratio ==
                  Min2(Min2(resource_ratio(now, "water"),
                            resource_ratio(now, "food")),
                       Min2(resource_ratio(now, "energy"),
                            resource_ratio(now, "land")))
            IN rewards[Len(rewards)]
                 = TierAndImprovement("water") + TierAndImprovement("food")
                   + TierAndImprovement("energy") + TierAndImprovement("land")
                   + ((now.population - before.population) * 12000)
                        \div Max2(before.population, 100)
                   + (now.happiness - before.happiness) * 6
                   + now.happiness * 2
                   + (IF now.is_alive THEN 1500 ELSE 0 - 60000)
                   + 4 * min_ratio
                   + (now.tech_level * 3) \div 10]_vars


\* the regions of world 1
Regions1 == RegionsOf(W1, REGION_CONFIGS)

\* C17 as stated: for every region and resource kind, max_resources is the
\* value World construction gave it.
C17_MaxResourcesConstant ==
  \A n \in NameSet : \A k \in ResSet :
     Regions1[n].max_resources[k] = CONFIG_TABLE[n].max_resources[k]

\* C17, amended: max_resources["land"] keeps the value World construction gave it; a
\* step multiplies the water, food and energy capacity of a region by 1.004
\* when the region is alive at the action phase and its action is
\* "stockpile", and leaves the capacities of every other region as they were.
C17_MaxResourcesGrowByStockpile ==
  [][\A n \in NameSet :
       LET old == Regions1[n].max_resources
           new == Regions1'[n].max_resources
           stockpiles == /\ phases'.pre_action[n].is_alive
                         /\ phases'.decisions[n] = "stockpile"
       IN /\ new["land"] = CONFIG_TABLE[n].max_resources["land"]
          /\ \A k \in ResSet \ {"land"} :
                new[k] = IF stockpiles THEN (old[k] * 1004) \div 1000
                         ELSE old[k]]_vars

\* a region has stockpiled and holds larger water capacity and its
\* configured land capacity, while the capacities of a region that never
\* stockpiled are those of construction
C17_Witness ==
  /\ W1.cycle > 1
  /\ \E n \in NameSet :
        /\ Regions1[n].max_resources["water"]
             > CONFIG_TABLE[n].max_resources["water"]
        /\ Regions1[n].max_resources["land"]
             = CONFIG_TABLE[n].max_resources["land"]
        /\ phases.decisions[n] = "stockpile"
  /\ \E n \in NameSet :
        Regions1[n].max_resources = CONFIG_TABLE[n].max_resources


\* the names in the 'collapses' list of the log of the last step of world 1
Collapses == {log[1].collapses[i] : i \in 1..Len(log[1].collapses)}

\* C18: is_alive never changes from false to true; collapse_cycle is -1
\* exactly while the region is alive, becomes the number of the cycle in
\* whose demographics phase the population fell below 5 and never changes
\* afterwards; the region is in the 'collapses' list of the log of that
\* cycle and of no other.
C18_CollapseOnce ==
  [][\A n \in NameSet :
       LET old == W1.regions[n]
           new == W1'.regions[n]
           collapsed == old.is_alive /\ ~new.is_alive
       IN /\ ~old.is_alive => ~new.is_alive
          /\ ~old.is_alive => new.collapse_cycle = old.collapse_cycle
          /\ new.is_alive <=> new.collapse_cycle = 0 - 1
          /\ collapsed => /\ new.collapse_cycle = W1'.cycle
                          /\ new.population < 500
                          /\ phases'.post_trade.regs[n].is_alive
          /\ new.is_alive => new.population >= 500
          /\ collapsed <=> n \in Collapses'
          /\ Len(log'[1].collapses) = Cardinality(Collapses')]_vars

\* a region collapsed in an earlier cycle and has kept its collapse_cycle
\* through later steps, whose logs do not list it; another region has just
\* collapsed and is listed; a third is alive
C18_Witness ==
  /\ \E n \in NameSet :
        /\ ~W1.regions[n].is_alive
        /\ W1.regions[n].collapse_cycle > 0
        /\ W1.regions[n].collapse_cycle < W1.cycle - 1
        /\ n \notin Collapses
  /\ \E n \in NameSet :
        /\ W1.regions[n].collapse_cycle = W1.cycle
        /\ n \in Collapses
  /\ \E n \in NameSet :
        W1.regions[n].is_alive /\ W1.regions[n].collapse_cycle = 0 - 1


\* the types of the events world 1 has applied so far
EventsSoFar == {W1.event_history[i].type : i \in 1..Len(W1.event_history)}

\* C19: in every reachable state every region's happiness lies in [0, 1]:
\* after the action phase, after the event phase and at the end of the step.
C19_HappinessBounds ==
  /\ \A n \in NameSet : W1.regions[n].happiness \in 0..1000
  /\ W1.cycle > 0 =>
       \A n \in NameSet :
          /\ phases.post_action[n].happiness \in 0..1000
          /\ phases.pre_trade.regs[n].happiness \in 0..1000

\* plague, bumper harvest and technological leap have been applied, a
\* living region has just conserved, and happiness has moved off its
\* initial 0.5 in both directions
C19_Witness ==
  /\ {"plague", "bumper_harvest", "technological_leap"} \subseteq EventsSoFar
  /\ \E n \in NameSet : /\ phases.decisions[n] = "conserve"
                        /\ phases.pre_action[n].is_alive
                        /\ phases.post_action[n].happiness
                             < phases.pre_action[n].happiness
  /\ \E n \in NameSet : W1.regions[n].happiness > 500
  /\ \E n \in NameSet : W1.regions[n].happiness < 300


\* C20: get_decisions returns one entry per region: for a living region one
\* of the 9 action names, the one its own agent's get_action chose on the
\* region's current discretized state; for a dead region "none", its agent
\* left as it was (action history and last state-action pair included).
C20_DecisionsPerRegion ==
  [][driver[1].pc = "get_decisions" =>
       /\ DOMAIN driver'[1].decisions = NameSet
       /\ \A n \in NameSet :
            LET old == managers[1].agents[n]
                new == managers'[1].agents[n]
                decision == driver'[1].decisions[n]
            IN IF Regions1[n].is_alive
               THEN /\ decision \in ActionSet
                    /\ Cardinality(ActionSet) = 9
                    /\ new.last_state = CurrentState(n)
                    /\ new.last_action_idx \in ActionIdxs
                    /\ decision = ACTION_NAMES[new.last_action_idx + 1]
                    /\ new.action_history
                         = Append(old.action_history, new.last_action_idx)
                    /\ new.states_visited
                         = old.states_visited \cup {CurrentState(n)}
               ELSE /\ decision = "none"
                    /\ new = old]_vars

\* get_decisions has just returned "none" for a region that collapsed in an
\* earlier cycle, whose agent has one action per cycle up to the collapse,
\* and action names for living regions, two of which differ in state
C20_Witness ==
  /\ driver[1].pc = "step"
  /\ \E n \in NameSet :
        /\ ~Regions1[n].is_alive
        /\ driver[1].decisions[n] = "none"
        /\ Len(Agent1(n).action_history) = Regions1[n].collapse_cycle
        /\ Regions1[n].collapse_cycle < W1.cycle
  /\ \E n \in NameSet : \E m \in NameSet :
        /\ Regions1[n].is_alive /\ Regions1[m].is_alive
        /\ driver[1].decisions[n] \in ActionSet
        /\ Agent1(n).last_state # Agent1(m).last_state
        /\ Len(Agent1(n).action_history) = W1.cycle + 1

\* C21: each trade-disruption event of severity s that a step applies, local
\* or global, sets the block flag and lowers every stored relationship
\* score r once, to max(0.1, r - 0.05*s), however many regions are alive.
C21_DisruptionLowersOnce ==
  [][LET events == log'[1].events
         Hit(e) == /\ e.type = "trade_disruption"
                   /\ EventTargets(phases'.post_action, e) # <<>>
         RECURSIVE Lowered(_, _)
         Lowered(r, i) ==
           IF i > Len(events) THEN r
           ELSE Lowered(IF Hit(events[i])
                        THEN Max2(100, r - (5 * events[i].severity) \div 100)
                        ELSE r,
                        i + 1)
     IN /\ \A key \in DOMAIN W1.trade.relationship :
             phases'.pre_trade.trade.relationship[key]
               = Lowered(W1.trade.relationship[key], 1)
        /\ (\E i \in 1..Len(events) : Hit(events[i])) =>
             phases'.pre_trade.trade.disrupted]_vars


\* the random draws the last step of world 1 was given
LastDraws == DrawOutcomes[stream[Len(stream)]]

\* C22: every step runs production, consumption, agent actions, climate
\* events, trade, demographics and the history record in this order: each
\* phase works on what the phase before it left, collapse is decided after
\* trade and the histories record the values after demographics; no phase
\* is skipped.
C22_PhaseOrder ==
  [][LET cycle == W1.cycle + 1
         decisions == phases'.decisions
         Decided(n) == IF n \in DOMAIN decisions THEN decisions[n] ELSE ""
     IN /\ W1'.cycle = cycle
        /\ log'[1].cycle = cycle
        /\ ~log'[1].raised
        /\ \A n \in NameSet :
             phases'.pre_action[n]
               = IF Regions1[n].is_alive
                 THEN Consume(Produce(Regions1[n])) ELSE Regions1[n]
        /\ \A n \in NameSet :
             phases'.post_action[n]
               = IF n \in DOMAIN decisions /\ phases'.pre_action[n].is_alive
                 THEN apply_action(phases'.pre_action[n], decisions[n])
                 ELSE phases'.pre_action[n]
        /\ log'[1].events
             = generate_events(phases'.post_action, W1'.climate.season_idx,
                               cycle, LastDraws')
        /\ phases'.pre_trade
             = ApplyEvents([regs |-> phases'.post_action, trade |-> W1.trade],
                           log'[1].events)
        /\ phases'.post_trade
             = negotiate_trades(phases'.pre_trade, decisions, cycle,
                                LastDraws'.u)
        /\ log'[1].trades = phases'.post_trade.trades
        /\ W1'.trade = phases'.post_trade.trade
        /\ \A n \in NameSet :
             Regions1'[n]
               = IF phases'.post_trade.regs[n].is_alive
                 THEN Demographics(phases'.post_trade.regs[n], Decided(n), cycle)
                 ELSE phases'.post_trade.regs[n]
        /\ \A n \in NameSet :
             /\ phases'.post_trade.regs[n].is_alive = Regions1[n].is_alive
             /\ W1'.resource_history[cycle][n] = Regions1'[n].resources
             /\ W1'.population_history[cycle][n] = Regions1'[n].population
             /\ W1'.happiness_history[cycle][n] = Regions1'[n].happiness
             /\ W1'.tech_history[cycle][n] = Regions1'[n].tech_level
        /\ Len(W1'.resource_history) = cycle
        /\ W1'.trade_count_history[cycle] = Len(log'[1].trades)]_vars

\* the last step changed a region in each of its phases: an action and then
\* an event changed the resources of a region, an event and then a trade
\* changed the resources of a region, the demographics phase changed a
\* population after the trade phase, and the histories hold the final values
C22_Witness ==
  /\ W1.cycle > 1
  /\ \E n \in NameSet :
        /\ phases.post_action[n].resources # phases.pre_action[n].resources
        /\ phases.pre_trade.regs[n].resources # phases.post_action[n].resources
  /\ \E n \in NameSet :
        /\ phases.pre_trade.regs[n].resources # phases.post_action[n].resources
        /\ phases.post_trade.regs[n].resources # phases.pre_trade.regs[n].resources
        /\ Regions1[n].population # phases.post_trade.regs[n].population
        /\ W1.population_history[W1.cycle][n] = Regions1[n].population
        /\ W1.resource_history[W1.cycle][n] = phases.post_trade.regs[n].resources


\* C23: the season written to the log and to season_history for cycle c is
\* SEASONS[c mod 4], the season carried by the event records of that cycle.
C23_SeasonLabel ==
  W1.cycle > 0 =>
    /\ log[1].season = SEASONS[(W1.cycle % 4) + 1]
    /\ W1.season_history[W1.cycle] = SEASONS[(W1.cycle % 4) + 1]
    /\ \A i \in 1..Len(log[1].events) :
          log[1].events[i].season = log[1].season


\* C24: every record of trade_history has a buyer other than its seller,
\* both alive when the trade executed: a region that has collapsed is in no
\* trade of a later cycle.
C24_TradersAlive ==
  /\ \A i \in 1..Len(W1.trade.trade_history) :
       LET rec == W1.trade.trade_history[i]
       IN /\ rec.buyer # rec.seller
          /\ \A n \in {rec.buyer, rec.seller} :
                \/ W1.regions[n].is_alive
                \/ W1.regions[n].collapse_cycle >= rec.cycle
  /\ W1.cycle > 0 =>
       \A i \in 1..Len(LastTrades) :
          /\ phases.pre_trade.regs[LastTrades[i].buyer].is_alive
          /\ phases.pre_trade.regs[LastTrades[i].seller].is_alive

\* trades have executed in a cycle after the collapse of a region, which is
\* party to none of them
C24_Witness ==
  /\ W1.cycle > 0
  /\ LastTrades # <<>>
  /\ Len(W1.trade.trade_history) >= Len(LastTrades)
  /\ \E n \in NameSet :
        /\ ~W1.regions[n].is_alive
        /\ W1.regions[n].collapse_cycle < W1.cycle
        /\ \A i \in 1..Len(LastTrades) :
              n \notin {LastTrades[i].buyer, LastTrades[i].seller}


\* the trade-disruption events of the last step of world 1 that were applied
\* to at least one living region
Disruptions ==
  {i \in 1..Len(log[1].events) :
     /\ log[1].events[i].type = "trade_disruption"
     /\ EventTargets(phases.post_action, log[1].events[i]) # <<>>}

\* C25: the trade-disruption flag is false after every step, and a cycle in
\* which a trade disruption was applied to a living region has no trade and
\* no relationship decay: the scores after the step are those the events
\* left.
C25_DisruptedCycle ==
  W1.cycle > 0 =>
    /\ ~W1.trade.disrupted
    /\ Disruptions # {} =>
         /\ log[1].trades = <<>>
         /\ W1.trade_count_history[W1.cycle] = 0
         /\ W1.trade.relationship = phases.pre_trade.trade.relationship
         /\ phases.pre_trade.trade.disrupted

\* a disrupted cycle in which a region would have bought and a relationship
\* score is above the floor of 0.1, so that a decay would show
C25_Witness ==
  /\ W1.cycle > 1
  /\ Disruptions # {}
  /\ BuyerList(phases.pre_trade.regs, phases.decisions) # <<>>
  /\ \E key \in DOMAIN W1.trade.relationship : W1.trade.relationship[key] > 103


\* C26: a trade neither creates nor destroys resources: the buyer's holding
\* of the bought resource rises by trade_amt and the seller's falls by
\* trade_amt, the seller's holding of the collateral rises by exchange_amt
\* and the buyer's falls by exchange_amt, that is, clamp_resources truncates
\* neither side of any transfer.
C26_TradeConserves ==
  W1.cycle > 0 =>
    \A i \in 1..Len(LastTransfers) :
      LET t == LastTransfers[i]
      IN /\ t.buyer_res[2] - t.buyer_res[1] = t.trade_amt
         /\ t.seller_res[1] - t.seller_res[2] = t.trade_amt
         /\ t.seller_offer[2] - t.seller_offer[1] = t.exchange_amt
         /\ t.buyer_offer[1] - t.buyer_offer[2] = t.exchange_amt


\* C27: at the end of a negotiate_trades call, every region that bought a
\* resource in the call holds at most 0.35*max_resources of that resource.
C27_BuyerBelowTarget ==
  W1.cycle > 0 =>
    \A i \in 1..Len(LastTransfers) :
      LET t == LastTransfers[i]
          buyer == phases.post_trade.regs[t.buyer]
      IN buyer.resources[t.res] * 100 <= buyer.max_resources[t.res] * 35


\* the seven per-cycle histories of world w
Histories(w) ==
  <<w.resource_history, w.population_history, w.happiness_history,
    w.tech_history, w.strategy_history, w.trade_count_history,
    w.season_history>>

RECURSIVE SumSeq(_)
SumSeq(s) == IF s = <<>> THEN 0 ELSE Head(s) + SumSeq(Tail(s))

\* C28: every step leaves the seven histories with one entry per cycle, each
\* per-region snapshot with an entry for all 8 regions, the earlier entries
\* as they were, and trade_history as long as the sum of
\* trade_count_history.
C28_Histories ==
  [][/\ \A h \in 1..7 :
          /\ Len(Histories(W1')[h]) = W1'.cycle
          /\ Len(Histories(W1')[h]) = Len(Histories(W1)[h]) + 1
          /\ SubSeq(Histories(W1')[h], 1, Len(Histories(W1)[h])) = Histories(W1)[h]
     /\ \A h \in 1..5 : \A c \in 1..W1'.cycle :
          DOMAIN Histories(W1')[h][c] = NameSet
     /\ Cardinality(NameSet) = 8
     /\ SubSeq(W1'.trade.trade_history, 1, Len(W1.trade.trade_history))
          = W1.trade.trade_history
     /\ Len(W1'.trade.trade_history) = SumSeq(W1'.trade_count_history)]_vars

\* after a cycle with trades that follows a cycle without, and a collapse
\* in an earlier cycle
C28_Witness ==
  /\ W1.cycle > 2
  /\ W1.trade_count_history[W1.cycle] > 1
  /\ \E c \in 1..(W1.cycle - 1) : W1.trade_count_history[c] = 0
  /\ \E n \in NameSet : /\ ~Regions1[n].is_alive
                        /\ Regions1[n].collapse_cycle < W1.cycle
                        /\ n \in DOMAIN W1.population_history[W1.cycle]


\* the number of cycles of world 1 that region n began alive: all of them,
\* or those up to the cycle whose collapse log names it
BeganAlive(n) ==
  IF \E i \in 1..Len(W1.collapse_log) : W1.collapse_log[i].name = n
  THEN (CHOOSE e \in {W1.collapse_log[i] : i \in 1..Len(W1.collapse_log)} :
          e.name = n).cycle
  ELSE W1.cycle

\* C29: between two cycles of the loop, every agent has as many rewards as
\* actions, and as many as the cycles its region began alive.
C29_UpdatesMatchActions ==
  driver[1].pc = "snapshot_states" =>
    \A n \in NameSet :
      /\ Len(Agent1(n).reward_history) = Len(Agent1(n).action_history)
      /\ Len(Agent1(n).action_history) = BeganAlive(n)

\* the loop has completed cycles after a region collapsed, and the agent of
\* that region has stopped at the cycle of the collapse
C29_Witness ==
  /\ driver[1].pc = "snapshot_states"
  /\ W1.cycle > 2
  /\ \E n \in NameSet :
       /\ BeganAlive(n) > 0
       /\ BeganAlive(n) + 1 < W1.cycle
       /\ Len(Agent1(n).reward_history) = BeganAlive(n)
  /\ \E n \in NameSet : Len(Agent1(n).action_history) = W1.cycle


\* the states handed to the next call on the agent
NextCallStates ==
  IF Calls(TheAgent) < MaxFreeCalls THEN AgentStates ELSE {LaterState}

\* C30: an update call on an agent changes at most one Q-value, that of the
\* agent's last (state, action) pair, to Q + lr*(reward + gamma*max
\* Q(new_state, .) - Q); every other Q-value of the agent and the agents of
\* the other regions are unchanged, and an update made before any action has
\* been chosen changes no Q-value.
C30_UpdateOneEntry ==
  [][Len(TheAgent'.reward_history) > Len(TheAgent.reward_history) =>
       LET reward == TheAgent'.reward_history[Len(TheAgent'.reward_history)]
           keys == DOMAIN TheAgent'.q_table \cup DOMAIN TheAgent.q_table
                     \cup AgentStates
           Target(new_state) ==
             TheAgent.gamma * MaxQ(QRead(TheAgent, new_state))
       IN /\ \A n \in NameSet \ {AgentName} :
               managers'[1].agents[n] = managers[1].agents[n]
          /\ TheAgent.last_state = <<>> =>
               \A s \in keys : QRead(TheAgent', s) = QRead(TheAgent, s)
          /\ TheAgent.last_state # <<>> =>
               \E new_state \in NextCallStates :
                 \A s \in keys : \A a \in ActionIdxs :
                   QRead(TheAgent', s)[a] =
                     IF s = TheAgent.last_state /\ a = TheAgent.last_action_idx
                     THEN QRead(TheAgent, s)[a]
                            + (TheAgent.lr
                                 * (reward + Target(new_state) \div 1000
                                      - QRead(TheAgent, s)[a])) \div 1000
                     ELSE QRead(TheAgent, s)[a]]_vars

\* an update before any action, then an action and an update that has
\* changed the Q-value of that action and of no other
C30_Witness ==
  /\ after = 2
  /\ Len(TheAgent.reward_history) = 2
  /\ Len(TheAgent.action_history) = 1
  /\ QRead(TheAgent, TheAgent.last_state)[TheAgent.last_action_idx] # 0
  /\ \A a \in ActionIdxs \ {TheAgent.last_action_idx} :
       QRead(TheAgent, TheAgent.last_state)[a] = 0

====
